---- MODULE Spec2Model ----
(***************************************************************************)
(* A model of the cricket chatbot backend: the CSV store and its ingestion *)
(* update (services/player_service.py), the ChromaDB index and its cached  *)
(* accessor (db/chroma_db.py), and the query router with its ranking       *)
(* handlers (routes/chatbot_routes.py).                                    *)
(*                                                                         *)
(* Python strings that the code searches (queries, phrases, player names)  *)
(* are sequences of one-character strings, so `in`, lower() and strip()    *)
(* are computed, not assumed.  A Python dict is a function with a domain   *)
(* of strings.  A raw field value is a pair <<tag, n>>: tag says which     *)
(* Python value it is (int, float, numeric text, other text, None).        *)
(***************************************************************************)
EXTENDS Integers, Sequences, FiniteSets, TLC

VARIABLES
    csvExists,   \* os.path.exists(Config.DATASET_PATH)
    csv,         \* the rows of the CSV file, in file order
    index,       \* the metadatas held by the ChromaDB collection, in id order
    cache,       \* the one entry of lru_cache(maxsize=1) on get_player_collection
    model,       \* gemini_service.model is configured (truthy)
    lastOp,      \* the request answered last
    response,    \* its response
    trace,       \* the steps it took: storage accesses, outbound calls, handlers
    input,       \* argument of the pure function under check
    output,      \* its result; the records a concurrent query read
    pc           \* where the forced rebuild of a running update request stands

vars == <<csvExists, csv, index, cache, model, lastOp, response, trace, input, output, pc>>

----------------------------------------------------------------------------
(* Bounds of the model *)

\* longest 'players' list of a bulk ingestion payload
MaxBatch == 2

\* most records of a ranking input
MaxRank == 3

\* most distinct batsmen, and bowlers, that lead a team-selection input
MaxLeadBatsmen == 6

MaxLeadAllRounders == 3

MaxLeadBowlers == 3

\* most records that follow them, of any name and role
MaxTail == 2

\* most records of a best-players input
MaxPlayers == 12

----------------------------------------------------------------------------
(* Python strings *)

UpperChars == <<"A", "B", "C", "D", "E", "F", "G", "H", "I", "J", "K", "L", "M", "N", "O", "P", "Q", "R", "S", "T", "U", "V", "W", "X", "Y", "Z">>

LowerChars == <<"a", "b", "c", "d", "e", "f", "g", "h", "i", "j", "k", "l", "m", "n", "o", "p", "q", "r", "s", "t", "u", "v", "w", "x", "y", "z">>

LowerChar(c) ==
    IF \E i \in 1..26 : UpperChars[i] = c
    THEN LowerChars[CHOOSE i \in 1..26 : UpperChars[i] = c]
    ELSE c

\* str.lower()
Lower(s) == [i \in 1..Len(s) |-> LowerChar(s[i])]

\* sub in s
Contains(s, sub) ==
    \E i \in 0..(Len(s) - Len(sub)) : SubSeq(s, i + 1, i + Len(sub)) = sub

RECURSIVE LStrip(_)
LStrip(s) == IF s # <<>> /\ Head(s) = " " THEN LStrip(Tail(s)) ELSE s

RECURSIVE RStrip(_)
RStrip(s) ==
    IF s # <<>> /\ s[Len(s)] = " " THEN RStrip(SubSeq(s, 1, Len(s) - 1)) ELSE s

\* str.strip()
Strip(s) == RStrip(LStrip(s))

----------------------------------------------------------------------------
(* Python values and dicts *)

IntV(n) == <<"int", n>>

FloatV(n) == <<"float", n>>

\* text that spells the integer n, e.g. "7"
NumStr(n) == <<"str", n>>

\* text that spells no number
BadStr == <<"bad", 0>>

NoneV == <<"none", 0>>

\* float('nan'), what pandas reads from an empty cell
NaNV == <<"nan", 0>>

\* dict.get(key, default)
Get(d, key, default) == IF key \in DOMAIN d THEN d[key] ELSE default

\* d[key] = val
Put(d, key, val) ==
    [k \in (DOMAIN d) \cup {key} |-> IF k = key THEN val ELSE d[k]]

\* int(v): the value, or the exception it raises
PyInt(v) ==
    CASE v[1] = "int"   -> [raised |-> FALSE, val |-> IntV(v[2])]
      [] v[1] = "float" -> [raised |-> FALSE, val |-> IntV(v[2])]
      [] v[1] = "str"   -> [raised |-> FALSE, val |-> IntV(v[2])]
      [] v[1] = "bad"   -> [raised |-> TRUE, val |-> v]
      [] v[1] = "nan"   -> [raised |-> TRUE, val |-> v]
      [] v[1] = "none"  -> [raised |-> TRUE, val |-> v]

\* float(v)
PyFloat(v) ==
    CASE v[1] = "int"   -> [raised |-> FALSE, val |-> FloatV(v[2])]
      [] v[1] = "float" -> [raised |-> FALSE, val |-> FloatV(v[2])]
      [] v[1] = "str"   -> [raised |-> FALSE, val |-> FloatV(v[2])]
      [] v[1] = "nan"   -> [raised |-> FALSE, val |-> v]
      [] v[1] = "bad"   -> [raised |-> TRUE, val |-> v]
      [] v[1] = "none"  -> [raised |-> TRUE, val |-> v]

\* pd.isna(v) or v is None
IsNa(v) == v[1] \in {"nan", "none"}

\* the truth value Python gives v
Truthy(v) ==
    CASE v[1] \in {"int", "float"} -> v[2] # 0
      [] v[1] \in {"str", "bad", "nan"} -> TRUE
      [] v[1] = "none" -> FALSE

----------------------------------------------------------------------------
(* db/chroma_db.py *)

safe_convert_int(value) ==
    IF IsNa(value) THEN IntV(0)
    ELSE IF PyInt(value).raised THEN IntV(0) ELSE PyInt(value).val

safe_convert_float(value) ==
    IF IsNa(value) THEN IntV(0)
    ELSE IF PyFloat(value).raised THEN IntV(0) ELSE PyFloat(value).val

\* classify_player_role raises when int() of a column does
classify_raises(row) ==
    \/ (~IsNa(Get(row, "Total Runs", IntV(0))) /\ PyInt(Get(row, "Total Runs", IntV(0))).raised)
    \/ (~IsNa(Get(row, "Wickets", IntV(0))) /\ PyInt(Get(row, "Wickets", IntV(0))).raised)

\* classify_player_role reading the runs from a column the CSV does not have
classify_player_role_wrong_column(row) ==
    LET runs == IF ~IsNa(Get(row, "Runs", IntV(0)))
                THEN PyInt(Get(row, "Runs", IntV(0))).val[2] ELSE 0
        wickets == IF ~IsNa(Get(row, "Wickets", IntV(0)))
                   THEN PyInt(Get(row, "Wickets", IntV(0))).val[2] ELSE 0
    IN  IF wickets > 5 /\ runs < 50 THEN <<"B", "o", "w", "l", "e", "r">>
        ELSE IF runs > 100 /\ wickets < 3 THEN <<"B", "a", "t", "s", "m", "a", "n">>
        ELSE <<"A", "l", "l", "-", "R", "o", "u", "n", "d", "e", "r">>

classify_player_role(row) ==
    LET runs == IF ~IsNa(Get(row, "Total Runs", IntV(0)))
                THEN PyInt(Get(row, "Total Runs", IntV(0))).val[2] ELSE 0
        wickets == IF ~IsNa(Get(row, "Wickets", IntV(0)))
                   THEN PyInt(Get(row, "Wickets", IntV(0))).val[2] ELSE 0
    IN  IF wickets > 5 /\ runs < 50 THEN <<"B", "o", "w", "l", "e", "r">>
        ELSE IF runs > 100 /\ wickets < 3 THEN <<"B", "a", "t", "s", "m", "a", "n">>
        ELSE <<"A", "l", "l", "-", "R", "o", "u", "n", "d", "e", "r">>

\* the metadata get_player_collection stores for one CSV row
RowMetadata(row) ==
    [name           |-> row["Name"],
     university     |-> Get(row, "University", <<>>),
     category       |-> Get(row, "Category", <<>>),
     role           |-> classify_player_role(row),
     total_runs     |-> safe_convert_int(Get(row, "Total Runs", IntV(0))),
     balls_faced    |-> safe_convert_int(Get(row, "Balls Faced", IntV(0))),
     innings_played |-> safe_convert_int(Get(row, "Innings Played", IntV(0))),
     wickets        |-> safe_convert_int(Get(row, "Wickets", IntV(0))),
     overs_bowled   |-> safe_convert_float(Get(row, "Overs Bowled", IntV(0))),
     runs_conceded  |-> safe_convert_int(Get(row, "Runs Conceded", IntV(0))),
     base_price     |-> safe_convert_int(Get(row, "Base Price", IntV(0)))]

\* the metadatas list built from the dataframe
BuildMetadatas(rows) == [i \in 1..Len(rows) |-> RowMetadata(rows[i])]

\* CollectionBody re-adding the rows whenever the CSV file exists
CollectionBodyAlwaysRebuild(force_refresh, chromaOk, exists, rows, idx) ==
    IF ~chromaOk THEN [index |-> idx, val |-> "none"]
    ELSE IF ~exists THEN [index |-> IF force_refresh THEN <<>> ELSE idx, val |-> "coll"]
    ELSE IF \E i \in 1..Len(rows) : classify_raises(rows[i])
    THEN [index |-> <<>>, val |-> "none"]
    ELSE [index |-> BuildMetadatas(rows), val |-> "coll"]

\* the body of get_player_collection: the collection's contents afterwards
\* and the value returned ("coll", or "none" after an exception)
CollectionBody(force_refresh, chromaOk, exists, rows, idx) ==
    IF ~chromaOk THEN [index |-> idx, val |-> "none"]
    ELSE LET afterDelete == IF force_refresh THEN <<>> ELSE idx
         IN  IF ~exists THEN [index |-> afterDelete, val |-> "coll"]
             ELSE IF Len(afterDelete) = 0 \/ force_refresh
             THEN IF \E i \in 1..Len(rows) : classify_raises(rows[i])
                  THEN [index |-> <<>>, val |-> "none"]
                  ELSE [index |-> BuildMetadatas(rows), val |-> "coll"]
             ELSE [index |-> afterDelete, val |-> "coll"]

\* the key lru_cache makes of the call's arguments
CacheKey(force_refresh) == IF force_refresh THEN "force" ELSE "default"

\* get_player_collection under lru_cache(maxsize=1): a hit returns the cached
\* value and runs nothing; a miss runs the body and replaces the entry
get_player_collection(force_refresh, chromaOk, exists, rows, idx, c) ==
    IF c.key = CacheKey(force_refresh)
    THEN [index |-> idx, val |-> c.val, cache |-> c, hit |-> TRUE]
    ELSE LET b == CollectionBody(force_refresh, chromaOk, exists, rows, idx)
         IN  [index |-> b.index, val |-> b.val,
              cache |-> [key |-> CacheKey(force_refresh), val |-> b.val],
              hit |-> FALSE]

\* validate_cricket_query with an empty string among the keywords
validate_cricket_query_empty_keyword(query) ==
    Contains(Lower(query), <<"c", "r", "i", "c", "k", "e", "t">>) \/ Contains(Lower(query), <<>>)

validate_cricket_query(query) ==
    LET query_lower == Lower(query)
    IN  \/ Contains(query_lower, <<"c", "r", "i", "c", "k", "e", "t">>)
        \/ Contains(query_lower, <<"p", "l", "a", "y", "e", "r">>)
        \/ Contains(query_lower, <<"b", "a", "t", "s", "m", "a", "n">>)
        \/ Contains(query_lower, <<"b", "o", "w", "l", "e", "r">>)
        \/ Contains(query_lower, <<"a", "l", "l", "-", "r", "o", "u", "n", "d", "e", "r">>)
        \/ Contains(query_lower, <<"a", "l", "l", "r", "o", "u", "n", "d", "e", "r">>)
        \/ Contains(query_lower, <<"t", "e", "a", "m">>)
        \/ Contains(query_lower, <<"r", "u", "n", "s">>)
        \/ Contains(query_lower, <<"w", "i", "c", "k", "e", "t", "s">>)
        \/ Contains(query_lower, <<"i", "n", "n", "i", "n", "g", "s">>)
        \/ Contains(query_lower, <<"s", "t", "a", "t", "s">>)
        \/ Contains(query_lower, <<"s", "t", "a", "t", "i", "s", "t", "i", "c", "s">>)
        \/ Contains(query_lower, <<"b", "a", "t", "t", "i", "n", "g">>)
        \/ Contains(query_lower, <<"b", "o", "w", "l", "i", "n", "g">>)
        \/ Contains(query_lower, <<"s", "c", "o", "r", "e">>)
        \/ Contains(query_lower, <<"m", "a", "t", "c", "h">>)
        \/ Contains(query_lower, <<"t", "o", "u", "r", "n", "a", "m", "e", "n", "t">>)
        \/ Contains(query_lower, <<"p", "e", "r", "f", "o", "r", "m", "a", "n", "c", "e">>)
        \/ Contains(query_lower, <<"b", "e", "s", "t">>)

----------------------------------------------------------------------------
(* services/player_service.py: ingestion *)

\* the row _update_single_player appends for a new player
NewRow(player_data) ==
    LET td == Get(player_data, "tournamentData", <<>>)
    IN  [n \in {"Name", "University", "Category", "Total Runs", "Balls Faced",
                "Innings Played", "Wickets", "Overs Bowled", "Runs Conceded",
                "Base Price"} |->
           CASE n = "Name" -> player_data["name"]
             [] n = "University" -> <<>>
             [] n = "Category" -> Get(player_data, "category", <<>>)
             [] n = "Total Runs" -> Get(td, "runs", IntV(0))
             [] n = "Balls Faced" -> Get(td, "ballsFaced", IntV(0))
             [] n = "Innings Played" -> Get(td, "inningsPlayed", IntV(0))
             [] n = "Wickets" -> Get(td, "wickets", IntV(0))
             [] n = "Overs Bowled" -> Get(td, "oversBowled", IntV(0))
             [] n = "Runs Conceded" -> Get(td, "runsConceded", IntV(0))
             [] n = "Base Price" -> Get(player_data, "basePrice", IntV(0))]

\* df.loc[df['Name'] == player_name, column] = value, for the eight columns
UpdateRow(row, player_data) ==
    [n \in DOMAIN row |->
        IF n \in {"Name", "University"} THEN row[n] ELSE NewRow(player_data)[n]]

\* _update_single_player(df, player_data, csv_file_path): what it returns, the
\* caller's dataframe afterwards (df.loc writes in place, pd.concat rebinds
\* the local name only), and the rows it saved to the file, if it saved
_update_single_player(df, player_data) ==
    IF "name" \notin DOMAIN player_data \/ player_data["name"] = <<>>
    THEN [ret |-> FALSE, df |-> df, saved |-> FALSE, file |-> <<>>]
    ELSE IF \E i \in 1..Len(df) : df[i]["Name"] = player_data["name"]
    THEN LET upd == [i \in 1..Len(df) |->
                        IF df[i]["Name"] = player_data["name"]
                        THEN UpdateRow(df[i], player_data) ELSE df[i]]
         IN  [ret |-> TRUE, df |-> upd, saved |-> TRUE, file |-> upd]
    ELSE [ret |-> TRUE, df |-> df, saved |-> TRUE,
          file |-> Append(df, NewRow(player_data))]

\* the loop over player_data['players']: the file after each player in turn
RECURSIVE UpdatePlayers(_, _, _, _)
UpdatePlayers(df, players, exists, file) ==
    IF players = <<>> THEN [exists |-> exists, file |-> file]
    ELSE LET r == _update_single_player(df, Head(players))
         IN  UpdatePlayers(r.df, Tail(players),
                           exists \/ r.saved,
                           IF r.saved THEN r.file ELSE file)

\* update_csv_data(player_data): its return value and the file afterwards
update_csv_data(player_data, exists, rows) ==
    LET df == IF exists THEN rows ELSE <<>>
    IN  IF "deletePlayer" \in DOMAIN player_data /\ player_data["deletePlayer"]
        THEN LET kept == IF "name" \in DOMAIN player_data /\ player_data["name"] # <<>>
                         THEN SelectSeq(df, LAMBDA r : r["Name"] # player_data["name"])
                         ELSE df
             IN  [ret |-> TRUE, exists |-> TRUE, file |-> kept]
        ELSE IF "players" \in DOMAIN player_data
        THEN LET u == UpdatePlayers(df, player_data["players"], exists, rows)
             IN  [ret |-> TRUE, exists |-> u.exists, file |-> u.file]
        ELSE LET r == _update_single_player(df, player_data)
             IN  [ret |-> r.ret, exists |-> exists \/ r.saved,
                  file |-> IF r.saved THEN r.file ELSE rows]

\* search_player_by_name matching whole names only
search_player_by_name_exact(players, name_query) ==
    SelectSeq(players, LAMBDA p : Lower(p["name"]) = Lower(name_query))

\* search_player_by_name(players, name_query)
search_player_by_name(players, name_query) ==
    SelectSeq(players, LAMBDA p : Contains(Lower(p["name"]), Lower(name_query)))

\* format_player_info(player): subscripting a list with a string raises
\* TypeError; a dict gives the single-record text
format_player_info(obj) ==
    IF obj.py = "dict"
    THEN [raised |-> FALSE, kind |-> "player_info", names |-> <<obj.val["name"]>>]
    ELSE [raised |-> TRUE, kind |-> "player_info", names |-> <<>>]

PyDict(d) == [py |-> "dict", val |-> d]

PyList(l) == [py |-> "list", val |-> l]

----------------------------------------------------------------------------
(* routes/chatbot_routes.py: the normalisation pass *)

\* player[key] = int(player.get(key, player.get(title, 0))); player[title] = player[key]
ConvertField(p, key, title, isFloat) ==
    LET raw == Get(p, key, Get(p, title, IntV(0)))
        c == IF isFloat THEN PyFloat(raw) ELSE PyInt(raw)
    IN  IF c.raised THEN [raised |-> TRUE, p |-> p]
        ELSE [raised |-> FALSE, p |-> Put(Put(p, key, c.val), title, c.val)]

\* player[key] = player.get(key, player.get(title, '')); player[title] = player[key]
CopyField(p, key, title) ==
    LET v == Get(p, key, Get(p, title, <<>>))
    IN  Put(Put(p, key, v), title, v)

\* the body of the try block for one player: the statements run in order and
\* the first ValueError or TypeError ends the block, keeping what was assigned
NormalizePlayer(p) ==
    LET s1 == ConvertField(p, "total_runs", "Total Runs", FALSE) IN
    IF s1.raised THEN s1.p ELSE
    LET s2 == ConvertField(s1.p, "wickets", "Wickets", FALSE) IN
    IF s2.raised THEN s2.p ELSE
    LET s3 == ConvertField(s2.p, "base_price", "Base Price", FALSE) IN
    IF s3.raised THEN s3.p ELSE
    LET s6 == CopyField(CopyField(CopyField(s3.p, "name", "Name"),
                                  "category", "Category"), "role", "Role")
        s7 == ConvertField(s6, "runs_conceded", "Runs Conceded", FALSE) IN
    IF s7.raised THEN s7.p ELSE
    LET s8 == ConvertField(s7.p, "innings_played", "Innings Played", FALSE) IN
    IF s8.raised THEN s8.p ELSE
    ConvertField(s8.p, "overs_bowled", "Overs Bowled", TRUE).p

\* for player in players: ...
NormalizePlayers(players) == [i \in 1..Len(players) |-> NormalizePlayer(players[i])]

----------------------------------------------------------------------------
(* routes/chatbot_routes.py: ranking and selection *)

\* sort keys are tuples of integers, compared as Python compares tuples
KeyGreater(a, b) ==
    \E i \in 1..Len(a) : a[i] > b[i] /\ \A j \in 1..(i - 1) : a[j] = b[j]

\* the position sorted(..., reverse=True) gives element i: after every element
\* with a greater key and after the earlier elements with an equal key
SortedPosition(keys, i) ==
    1 + Cardinality({j \in 1..Len(keys) :
                        KeyGreater(keys[j], keys[i]) \/ (keys[j] = keys[i] /\ j < i)})

\* sorted(items, key=..., reverse=True), keys[i] being the key of items[i]
SortedDesc(items, keys) ==
    [k \in 1..Len(items) |->
        items[CHOOSE i \in 1..Len(items) : SortedPosition(keys, i) = k]]

\* [p for p in players if p['role'].lower() == role]
OfRole(players, role) == SelectSeq(players, LAMBDA p : Lower(p["role"]) = role)

\* BatsmanKey with the tie-break field first
BatsmanKeyPriceFirst(p) == <<p["base_price"][2], p["total_runs"][2]>>

\* key=lambda p: (p['total_runs'], p['base_price'])
BatsmanKey(p) == <<p["total_runs"][2], p["base_price"][2]>>

\* key=lambda p: (p['wickets'], p['base_price'])
BowlerKey(p) == <<p["wickets"][2], p["base_price"][2]>>

\* all_rounder_score(player)
all_rounder_score(player) == player["total_runs"][2] + (player["wickets"][2] * 10)

\* key=lambda p: (all_rounder_score(p), p['base_price'])
AllRounderKey(p) == <<all_rounder_score(p), p["base_price"][2]>>

\* key=lambda p: p['base_price']
PriceKey(p) == <<p["base_price"][2]>>

sorted_batsmen(players) ==
    LET c == OfRole(players, <<"b", "a", "t", "s", "m", "a", "n">>)
    IN  SortedDesc(c, [i \in 1..Len(c) |-> BatsmanKey(c[i])])

sorted_bowlers(players) ==
    LET c == OfRole(players, <<"b", "o", "w", "l", "e", "r">>)
    IN  SortedDesc(c, [i \in 1..Len(c) |-> BowlerKey(c[i])])

sorted_all_rounders(players) ==
    LET c == OfRole(players, <<"a", "l", "l", "-", "r", "o", "u", "n", "d", "e", "r">>)
    IN  SortedDesc(c, [i \in 1..Len(c) |-> AllRounderKey(c[i])])

\* sorted(players, key=lambda p: p['base_price'], reverse=True)
sorted_by_price(players) ==
    SortedDesc(players, [i \in 1..Len(players) |-> PriceKey(players[i])])

\* s[:n]
Take(s, n) == SubSeq(s, 1, IF Len(s) < n THEN Len(s) ELSE n)

\* the names of the team so far: player_ids
player_ids(team) == {team[i]["name"] : i \in 1..Len(team)}

\* for player in candidates: stop at cap members, skip a name already chosen
RECURSIVE FillTeam(_, _, _)
FillTeam(team, candidates, cap) ==
    IF candidates = <<>> \/ Len(team) >= cap THEN team
    ELSE IF Head(candidates)["name"] \notin player_ids(team)
    THEN FillTeam(Append(team, Head(candidates)), Tail(candidates), cap)
    ELSE FillTeam(team, Tail(candidates), cap)

\* for player in remaining_players: stop at 11 members; no check of the name
FillRemaining(team, remaining_players) ==
    team \o Take(remaining_players, 11 - Len(team))

\* the all-rounders loop with the limit of the bowlers loop
TeamAfterAllRoundersToEleven(players) ==
    FillTeam(FillTeam(<<>>, OfRole(sorted_by_price(players), <<"b", "a", "t", "s", "m", "a", "n">>), 5),
             OfRole(sorted_by_price(players), <<"a", "l", "l", "-", "r", "o", "u", "n", "d", "e", "r">>), 11)

\* the team after the batsmen loop
TeamAfterBatsmen(players) ==
    FillTeam(<<>>, OfRole(sorted_by_price(players), <<"b", "a", "t", "s", "m", "a", "n">>), 5)

\* the team after the all-rounders loop that follows it
TeamAfterAllRounders(players) ==
    FillTeam(TeamAfterBatsmen(players), OfRole(sorted_by_price(players), <<"a", "l", "l", "-", "r", "o", "u", "n", "d", "e", "r">>), 7)

\* the team after the batsmen, the all-rounders and the bowlers loops
TeamAfterRoles(players) ==
    LET byPrice == sorted_by_price(players)
        t1 == TeamAfterBatsmen(players)
        t2 == TeamAfterAllRounders(players)
        t3 == FillTeam(t2, OfRole(byPrice, <<"b", "o", "w", "l", "e", "r">>), 11)
    IN  IF Len(t3) < 11 /\ OfRole(byPrice, <<"a", "l", "l", "-", "r", "o", "u", "n", "d", "e", "r">>) # <<>>
        THEN FillTeam(t3, OfRole(byPrice, <<"a", "l", "l", "-", "r", "o", "u", "n", "d", "e", "r">>), 11)
        ELSE t3

\* the best-team handler's team
BestTeam(players) ==
    LET t4 == TeamAfterRoles(players)
        remaining_players ==
            SelectSeq(sorted_by_price(players),
                      LAMBDA p : p["name"] \notin player_ids(t4))
    IN  FillRemaining(t4, remaining_players)

----------------------------------------------------------------------------
(* routes/chatbot_routes.py: the text-generation calls *)

\* what one call of model.generate_content(...).text does: raises, returns
\* empty text, or returns text
GenResults == {"fail", "empty", "text"}

\* the names extraction may return for "Extract the player name"
ExtractTexts == {<<"R", "a", "j">>, <<"r", "a", "j", "a">>, <<"Z", "e", "d">>}

\* the lists [t.strip().lower() for t in text.split(',')] may be
TypeTexts == {<<"batsmen">>, <<"bowlers", "all-rounders">>, <<"spinners">>}

\* what collection.query(...) does: returns neighbours, returns none (the
\* collection was emptied under it), or raises
SearchResults == {"hit", "none", "raise"}

\* the response of a request and the steps that led to it
Out(kind, handler, names, context, tr) ==
    [kind |-> kind, handler |-> handler, names |-> names, context |-> context,
     trace |-> tr]

\* [p['name'] for p in players]
NamesOf(players) == [i \in 1..Len(players) |-> players[i]["name"]]

\* EnhanceOr with get_gemini_response letting the failure of its call escape
EnhanceOrRaising(cond, handler, kind, names, context, tr) ==
    IF ~(model /\ cond) THEN {Out(kind, handler, names, <<>>, tr)}
    ELSE {IF g = "text"
          THEN Out("enhanced", handler, names, context, Append(tr, <<"get_gemini_response", g>>))
          ELSE IF g = "fail"
          THEN Out("error", handler, <<>>, <<>>, Append(tr, <<"get_gemini_response", g>>))
          ELSE Out(kind, handler, names, context, Append(tr, <<"get_gemini_response", g>>))
          : g \in GenResults}

\* EnhanceOr with get_gemini_response calling the service once more after a
\* failed call
EnhanceOrRetrying(cond, handler, kind, names, context, tr) ==
    IF ~(model /\ cond) THEN {Out(kind, handler, names, <<>>, tr)}
    ELSE {IF g = "text"
          THEN Out("enhanced", handler, names, context, Append(tr, <<"get_gemini_response", g>>))
          ELSE IF g = "fail"
          THEN Out("enhanced", handler, names, context,
                   tr \o <<<<"get_gemini_response", g>>, <<"get_gemini_response", "text">>>>)
          ELSE Out(kind, handler, names, context, Append(tr, <<"get_gemini_response", g>>))
          : g \in GenResults}

\* if <cond>: response = get_gemini_response(prompt, context);
\*            if response: return it
\* and otherwise the handler's own formatted text
EnhanceOr(cond, handler, kind, names, context, tr) ==
    IF ~(model /\ cond) THEN {Out(kind, handler, names, <<>>, tr)}
    ELSE {IF g = "text"
          THEN Out("enhanced", handler, names, context, Append(tr, <<"get_gemini_response", g>>))
          ELSE Out(kind, handler, names, context, Append(tr, <<"get_gemini_response", g>>))
          : g \in GenResults}

----------------------------------------------------------------------------
(* routes/chatbot_routes.py: the handlers *)

\* "player" in query_lower and any(name in query_lower for name in names)
NameSearchEntered(query_lower, players) ==
    /\ Contains(query_lower, <<"p", "l", "a", "y", "e", "r">>)
    /\ \E i \in 1..Len(players) : Contains(query_lower, Lower(players[i]["name"]))

\* for player in players: if player['name'].lower() in query_lower: ... break
DirectMatch(query_lower, players) ==
    IF \E i \in 1..Len(players) : Contains(query_lower, Lower(players[i]["name"]))
    THEN players[CHOOSE i \in 1..Len(players) :
                    /\ Contains(query_lower, Lower(players[i]["name"]))
                    /\ \A j \in 1..(i - 1) :
                          ~Contains(query_lower, Lower(players[j]["name"]))]["name"]
    ELSE <<>>

\* the name the stage searches for, with the trace of the extraction call:
\* Gemini's stripped text when there is some, else the direct match
NameAnalyses(query_lower, players, tr) ==
    IF ~model THEN {[name |-> DirectMatch(query_lower, players), tr |-> tr]}
    ELSE {[name |-> DirectMatch(query_lower, players),
           tr |-> Append(tr, <<"generate_content", g>>)] : g \in {"fail", "empty"}}
         \cup
         {[name |-> t, tr |-> Append(tr, <<"generate_content", "text">>)] :
             t \in ExtractTexts}

\* NameSearchAnswer ending the request with not-found when no record matches
NameSearchAnswerNotFound(players, a) ==
    LET matched_players == search_player_by_name(players, a.name)
        tr == Append(a.tr, <<"name_search", a.name>>)
    IN  IF a.name = <<>> \/ matched_players = <<>>
        THEN {[done |-> TRUE, out |-> Out("not_found", "name_search", <<>>, <<>>, tr)]}
        ELSE IF Len(matched_players) = 1
        THEN {[done |-> TRUE, out |-> o] :
                 o \in EnhanceOr(TRUE, "name_search", "player_info",
                                 NamesOf(matched_players), NamesOf(matched_players), tr)}
        ELSE {[done |-> TRUE,
               out |-> Out("disambiguation", "name_search",
                           NamesOf(matched_players), <<>>, tr)]}

\* the name-search stage after the analysis: a response, or none (the query
\* falls through to the phrase rules); the trace keeps the name searched for
NameSearchAnswer(players, a) ==
    LET matched_players == search_player_by_name(players, a.name)
        tr == Append(a.tr, <<"name_search", a.name>>)
    IN  IF a.name = <<>> \/ matched_players = <<>>
        THEN {[done |-> FALSE, out |-> Out("", "", <<>>, <<>>, tr)]}
        ELSE IF Len(matched_players) = 1
        THEN {[done |-> TRUE, out |-> o] :
                 o \in EnhanceOr(TRUE, "name_search", "player_info",
                                 NamesOf(matched_players), NamesOf(matched_players), tr)}
        ELSE {[done |-> TRUE,
               out |-> Out("disambiguation", "name_search",
                           NamesOf(matched_players), <<>>, tr)]}

NameSearch(query_lower, players, tr) ==
    UNION {NameSearchAnswer(players, a) : a \in NameAnalyses(query_lower, players, tr)}

BestBatsmanHandler(players, tr0) ==
    LET tr == Append(tr0, <<"handler", "best_batsman">>)
        s == sorted_batsmen(players)
    IN  IF s # <<>>
        THEN EnhanceOr(TRUE, "best_batsman", "best_batsman", <<s[1]["name"]>>,
                       <<s[1]["name"]>>, tr)
        ELSE {Out("no_batsmen", "best_batsman", <<>>, <<>>, tr)}

BestBowlerHandler(players, tr0) ==
    LET tr == Append(tr0, <<"handler", "best_bowler">>)
        s == sorted_bowlers(players)
    IN  IF s # <<>>
        THEN EnhanceOr(TRUE, "best_bowler", "best_bowler", <<s[1]["name"]>>,
                       <<s[1]["name"]>>, tr)
        ELSE {Out("no_bowlers", "best_bowler", <<>>, <<>>, tr)}

BestAllRounderHandler(players, tr0) ==
    LET tr == Append(tr0, <<"handler", "best_all_rounder">>)
        s == sorted_all_rounders(players)
    IN  IF s # <<>>
        THEN EnhanceOr(TRUE, "best_all_rounder", "best_all_rounder", <<s[1]["name"]>>,
                       <<s[1]["name"]>>, tr)
        ELSE {Out("no_all_rounders", "best_all_rounder", <<>>, <<>>, tr)}

\* BestPlayersHandler slicing the record list as read, not the sorted one
BestPlayersHandlerUnsorted(players, tr0) ==
    LET tr == Append(tr0, <<"handler", "best_players">>)
    IN  EnhanceOr(players # <<>>, "best_players", "top_players",
                  NamesOf(Take(players, 10)),
                  NamesOf(Take(players, 5)), tr)

BestPlayersHandler(players, tr0) ==
    LET tr == Append(tr0, <<"handler", "best_players">>)
        sorted_players == sorted_by_price(players)
    IN  EnhanceOr(sorted_players # <<>>, "best_players", "top_players",
                  NamesOf(Take(sorted_players, 10)),
                  NamesOf(Take(sorted_players, 5)), tr)

BestTeamHandler(players, tr0) ==
    LET tr == Append(tr0, <<"handler", "best_team">>)
        team == BestTeam(players)
    IN  EnhanceOr(team # <<>>, "best_team", "team", NamesOf(team), NamesOf(team), tr)

\* the three list handlers: top ten of one role by base price
ListHandler(players, role, handler, kind, tr0) ==
    LET tr == Append(tr0, <<"handler", handler>>)
        c == OfRole(players, role)
        top == Take(SortedDesc(c, [i \in 1..Len(c) |-> PriceKey(c[i])]), 10)
    IN  EnhanceOr(top # <<>>, handler, kind, NamesOf(top), NamesOf(top), tr)

\* sorted(role's players by base price)[:5]
TopFive(players, role) ==
    LET c == OfRole(players, role)
    IN  Take(SortedDesc(c, [i \in 1..Len(c) |-> PriceKey(c[i])]), 5)

\* player_types after the Gemini analysis, with the trace of the call
TypeAnalyses(tr) ==
    IF ~model THEN {[types |-> <<>>, tr |-> tr]}
    ELSE {[types |-> <<>>, tr |-> Append(tr, <<"generate_content", "fail">>)]}
         \cup {[types |-> <<"">>, tr |-> Append(tr, <<"generate_content", "empty">>)]}
         \cup {[types |-> t, tr |-> Append(tr, <<"generate_content", "text">>)] :
                  t \in TypeTexts}

\* if not player_types: the keyword checks on query_lower
KeywordTypes(query_lower) ==
    (IF Contains(query_lower, <<"b", "a", "t", "s", "m", "a", "n">>) \/ Contains(query_lower, <<"b", "a", "t", "s", "m", "e", "n">>)
     THEN <<"batsmen">> ELSE <<>>)
    \o (IF Contains(query_lower, <<"b", "o", "w", "l", "e", "r">>) \/ Contains(query_lower, <<"b", "o", "w", "l", "e", "r", "s">>)
        THEN <<"bowlers">> ELSE <<>>)
    \o (IF \/ Contains(query_lower, <<"a", "l", "l", "-", "r", "o", "u", "n", "d", "e", "r">>)
           \/ Contains(query_lower, <<"a", "l", "l", " ", "r", "o", "u", "n", "d", "e", "r">>)
           \/ Contains(query_lower, <<"a", "l", "l", "r", "o", "u", "n", "d", "e", "r">>)
        THEN <<"all-rounders">> ELSE <<>>)

\* t in player_types
InList(t, l) == \E i \in 1..Len(l) : l[i] = t

MixedAnswer(query_lower, players, a) ==
    LET player_types == IF a.types = <<>> THEN KeywordTypes(query_lower) ELSE a.types
        tr == a.tr \o <<<<"player_types", a.types>>, <<"handler", "mixed_players">>>>
        bat == IF InList("batsmen", player_types) THEN TopFive(players, <<"b", "a", "t", "s", "m", "a", "n">>) ELSE <<>>
        bowl == IF InList("bowlers", player_types) THEN TopFive(players, <<"b", "o", "w", "l", "e", "r">>) ELSE <<>>
        ar == IF InList("all-rounders", player_types)
              THEN TopFive(players, <<"a", "l", "l", "-", "r", "o", "u", "n", "d", "e", "r">>) ELSE <<>>
        result == \/ InList("batsmen", player_types)
                  \/ InList("bowlers", player_types)
                  \/ InList("all-rounders", player_types)
        all == TopFive(players, <<"b", "a", "t", "s", "m", "a", "n">>) \o TopFive(players, <<"b", "o", "w", "l", "e", "r">>)
               \o TopFive(players, <<"a", "l", "l", "-", "r", "o", "u", "n", "d", "e", "r">>)
    IN  IF player_types # <<>>
        THEN EnhanceOr(result, "mixed_players", "typed_players",
                       NamesOf(bat \o bowl \o ar), NamesOf(bat \o bowl \o ar), tr)
        ELSE EnhanceOr(TRUE, "mixed_players", "all_types", NamesOf(all), NamesOf(all), tr)

MixedPlayersHandler(query_lower, players, tr) ==
    UNION {MixedAnswer(query_lower, players, a) : a \in TypeAnalyses(tr)}

\* collection.query(query_texts=[query], n_results=k)['metadatas'][0]
Neighbours(idx, k, s) == IF s = "hit" THEN Take(idx, k) ELSE <<>>

\* results = collection.query(n_results=1) and what follows it
BasicSearch(idx, tr0) ==
    {LET tr == Append(tr0, <<"query_k1", s>>)
         found == Neighbours(idx, 1, s)
     IN  IF s = "raise" THEN Out("error", "fallback", <<>>, <<>>, tr)
         ELSE IF found # <<>>
         THEN IF format_player_info(PyList(found)).raised
              THEN Out("error", "fallback", <<>>, <<>>, tr)
              ELSE Out("player_info", "fallback", NamesOf(found), <<>>, tr)
         ELSE Out("not_found", "fallback", <<>>, <<>>, tr)
     : s \in SearchResults}

\* inside `if model: try:` after the analysis call: the top-3 search, the
\* enhanced answer, and on any exception the basic search
GeminiSearch(idx, tr0) ==
    UNION {LET tr == Append(tr0, <<"query_k3", s>>)
               found == Neighbours(idx, 3, s)
           IN  IF s = "raise" \/ found = <<>> THEN BasicSearch(idx, tr)
               ELSE UNION {LET tr2 == Append(tr, <<"get_gemini_response", g>>)
                           IN  IF g = "text"
                               THEN {Out("enhanced", "fallback", NamesOf(found),
                                         NamesOf(found), tr2)}
                               ELSE IF format_player_info(PyList(found)).raised
                               THEN BasicSearch(idx, tr2)
                               ELSE {Out("player_info", "fallback", NamesOf(found),
                                         NamesOf(found), tr2)}
                           : g \in GenResults}
           : s \in SearchResults}

\* FreeFormFallback running the top-3 search with the service unconfigured too
FreeFormFallbackAlwaysTop3(idx, tr0) ==
    LET tr == Append(tr0, <<"handler", "fallback">>)
    IN  IF ~model THEN GeminiSearch(idx, tr)
        ELSE BasicSearch(idx, Append(tr, <<"generate_content", "fail">>))
             \cup UNION {GeminiSearch(idx, Append(tr, <<"generate_content", g>>))
                         : g \in {"empty", "text"}}

FreeFormFallback(idx, tr0) ==
    LET tr == Append(tr0, <<"handler", "fallback">>)
    IN  IF ~model THEN BasicSearch(idx, tr)
        ELSE BasicSearch(idx, Append(tr, <<"generate_content", "fail">>))
             \cup UNION {GeminiSearch(idx, Append(tr, <<"generate_content", g>>))
                         : g \in {"empty", "text"}}

----------------------------------------------------------------------------
(* routes/chatbot_routes.py: the router *)

IsBestBatsman(query_lower) == Contains(query_lower, <<"b", "e", "s", "t", " ", "b", "a", "t", "s", "m", "a", "n">>)

IsBestBowler(query_lower) == Contains(query_lower, <<"b", "e", "s", "t", " ", "b", "o", "w", "l", "e", "r">>)

IsBestAllRounder(query_lower) ==
    \/ Contains(query_lower, <<"b", "e", "s", "t", " ", "a", "l", "l", "-", "r", "o", "u", "n", "d", "e", "r">>)
    \/ Contains(query_lower, <<"b", "e", "s", "t", " ", "a", "l", "l", " ", "r", "o", "u", "n", "d", "e", "r">>)
    \/ Contains(query_lower, <<"b", "e", "s", "t", " ", "a", "l", "l", "r", "o", "u", "n", "d", "e", "r">>)

IsBestPlayers(query_lower) == Contains(query_lower, <<"b", "e", "s", "t", " ", "p", "l", "a", "y", "e", "r", "s">>)

IsBestTeam(query_lower) == Contains(query_lower, <<"b", "e", "s", "t", " ", "t", "e", "a", "m">>)

IsListBatsmen(query_lower) ==
    Contains(query_lower, <<"b", "a", "t", "s", "m", "e", "n">>) \/ Contains(query_lower, <<"b", "a", "t", "s", "m", "a", "n", " ", "l", "i", "s", "t">>)

IsListBowlers(query_lower) ==
    Contains(query_lower, <<"b", "o", "w", "l", "e", "r", "s">>) \/ Contains(query_lower, <<"b", "o", "w", "l", "e", "r", " ", "l", "i", "s", "t">>)

IsListAllRounders(query_lower) ==
    \/ Contains(query_lower, <<"a", "l", "l", "-", "r", "o", "u", "n", "d", "e", "r", "s">>)
    \/ Contains(query_lower, <<"a", "l", "l", " ", "r", "o", "u", "n", "d", "e", "r", "s">>)
    \/ Contains(query_lower, <<"a", "l", "l", "r", "o", "u", "n", "d", "e", "r", "s">>)

IsMixedPlayers(query_lower) == Contains(query_lower, <<"p", "l", "a", "y", "e", "r", "s">>)

\* PhraseRules with the generic 'players' rule tested before the list rules
PhraseRulesPlayersEarly(query_lower, players, idx, tr) ==
    IF IsBestBatsman(query_lower) THEN BestBatsmanHandler(players, tr)
    ELSE IF IsBestBowler(query_lower) THEN BestBowlerHandler(players, tr)
    ELSE IF IsBestAllRounder(query_lower) THEN BestAllRounderHandler(players, tr)
    ELSE IF IsBestPlayers(query_lower) THEN BestPlayersHandler(players, tr)
    ELSE IF IsBestTeam(query_lower) THEN BestTeamHandler(players, tr)
    ELSE IF IsMixedPlayers(query_lower) THEN MixedPlayersHandler(query_lower, players, tr)
    ELSE IF IsListBatsmen(query_lower)
    THEN ListHandler(players, <<"b", "a", "t", "s", "m", "a", "n">>, "list_batsmen", "top_batsmen", tr)
    ELSE IF IsListBowlers(query_lower)
    THEN ListHandler(players, <<"b", "o", "w", "l", "e", "r">>, "list_bowlers", "top_bowlers", tr)
    ELSE IF IsListAllRounders(query_lower)
    THEN ListHandler(players, <<"a", "l", "l", "-", "r", "o", "u", "n", "d", "e", "r">>, "list_all_rounders", "top_all_rounders", tr)
    ELSE FreeFormFallback(idx, tr)

\* the if / elif chain of phrase rules, then the default
PhraseRules(query_lower, players, idx, tr) ==
    IF IsBestBatsman(query_lower) THEN BestBatsmanHandler(players, tr)
    ELSE IF IsBestBowler(query_lower) THEN BestBowlerHandler(players, tr)
    ELSE IF IsBestAllRounder(query_lower) THEN BestAllRounderHandler(players, tr)
    ELSE IF IsBestPlayers(query_lower) THEN BestPlayersHandler(players, tr)
    ELSE IF IsBestTeam(query_lower) THEN BestTeamHandler(players, tr)
    ELSE IF IsListBatsmen(query_lower)
    THEN ListHandler(players, <<"b", "a", "t", "s", "m", "a", "n">>, "list_batsmen", "top_batsmen", tr)
    ELSE IF IsListBowlers(query_lower)
    THEN ListHandler(players, <<"b", "o", "w", "l", "e", "r">>, "list_bowlers", "top_bowlers", tr)
    ELSE IF IsListAllRounders(query_lower)
    THEN ListHandler(players, <<"a", "l", "l", "-", "r", "o", "u", "n", "d", "e", "r">>, "list_all_rounders", "top_all_rounders", tr)
    ELSE IF IsMixedPlayers(query_lower) THEN MixedPlayersHandler(query_lower, players, tr)
    ELSE FreeFormFallback(idx, tr)

\* the part of query_chatbot inside the outer try, once players is non-empty
Route(query_lower, metadatas, tr) ==
    LET players == NormalizePlayers(metadatas)
    IN  IF NameSearchEntered(query_lower, players)
        THEN UNION {IF n.done THEN {n.out}
                    ELSE PhraseRules(query_lower, players, metadatas, n.out.trace)
                    : n \in NameSearch(query_lower, players, tr)}
        ELSE PhraseRules(query_lower, players, metadatas, tr)

\* IsGreeting accepting a query that holds a greeting word anywhere
IsGreetingContained(query_lower) ==
    \E word \in {<<"h", "i">>, <<"h", "e", "l", "l", "o">>, <<"h", "e", "y">>, <<"g", "r", "e", "e", "t", "i", "n", "g", "s">>, <<"h", "o", "l", "a">>} :
        Contains(query_lower, word)

IsGreeting(query_lower) ==
    query_lower \in {<<"h", "i">>, <<"h", "e", "l", "l", "o">>, <<"h", "e", "y">>, <<"g", "r", "e", "e", "t", "i", "n", "g", "s">>, <<"h", "o", "l", "a">>}

\* ResponseText answering an empty collection as it answers a missing one
ResponseTextRetryOnEmpty(kind) ==
    IF kind \in {"database_error", "no_players"}
    THEN <<"E", "r", "r", "o", "r", " ", "a", "c", "c", "e", "s", "s", "i", "n", "g", " ", "p", "l", "a", "y", "e", "r", " ", "d", "a", "t", "a", "b", "a", "s", "e", ".", " ", "P", "l", "e", "a", "s", "e", " ", "t", "r", "y", " ", "a", "g", "a", "i", "n", " ", "l", "a", "t", "e", "r", ".">>
    ELSE <<>>

\* the text of the responses of query_chatbot made before any handler runs
ResponseText(kind) ==
    IF kind = "database_error"
    THEN <<"E", "r", "r", "o", "r", " ", "a", "c", "c", "e", "s", "s", "i", "n", "g", " ", "p", "l", "a", "y", "e", "r", " ", "d", "a", "t", "a", "b", "a", "s", "e", ".", " ", "P", "l", "e", "a", "s", "e", " ", "t", "r", "y", " ", "a", "g", "a", "i", "n", " ", "l", "a", "t", "e", "r", ".">>
    ELSE IF kind = "no_players"
    THEN <<"N", "o", " ", "p", "l", "a", "y", "e", "r", "s", " ", "f", "o", "u", "n", "d", " ", "i", "n", " ", "t", "h", "e", " ", "d", "a", "t", "a", "b", "a", "s", "e", ".">>
    ELSE <<>>

\* query_chatbot: every response the request may end with, each with the
\* cache and the collection as the request leaves them
query_chatbot(raw, chromaOk, exists, rows, idx, c) ==
    LET query == Strip(raw)
        query_lower == Lower(query)
        gc == get_player_collection(FALSE, chromaOk, exists, rows, idx, c)
        tr1 == <<<<"get_player_collection", IF gc.hit THEN "hit" ELSE "miss">>>>
        tr2 == Append(tr1, <<"collection", "get">>)
        untouched(o) == [out |-> o, index |-> idx, cache |-> c]
        opened(o) == [out |-> o, index |-> gc.index, cache |-> gc.cache]
    IN  IF query = <<>>
        THEN {untouched(Out("provide_query", "", <<>>, <<>>, <<>>))}
        ELSE IF IsGreeting(query_lower)
        THEN {untouched(Out("greeting", "", <<>>, <<>>, <<>>))}
        ELSE IF ~validate_cricket_query(query)
        THEN {untouched(Out("refusal", "", <<>>, <<>>, <<>>))}
        ELSE IF gc.val = "none"
        THEN {opened(Out("database_error", "", <<>>, <<>>, tr1))}
        ELSE IF gc.index = <<>>
        THEN {opened(Out("no_players", "", <<>>, <<>>, tr2))}
        ELSE {opened(o) : o \in Route(query_lower, gc.index, tr2)}

----------------------------------------------------------------------------
(* The requests the model sends *)

Names == {<<"R", "a", "j">>, <<"R", "a", "j", "a">>}

\* <<runs, wickets, basePrice>> of a payload: a Batsman, a Bowler, an All-Rounder
Stats == {<<120, 0, 2>>, <<10, 6, 1>>, <<60, 3, 2>>}

\* the two of them the system specification ingests
FewStats == {<<120, 0, 2>>, <<10, 6, 1>>}

PlayerPayload(n, st) ==
    [name |-> n,
     tournamentData |-> [runs |-> IntV(st[1]), wickets |-> IntV(st[2])],
     basePrice |-> IntV(st[3])]

\* a payload that names no player
NamelessPayload ==
    [tournamentData |-> [runs |-> IntV(120), wickets |-> IntV(0)], basePrice |-> IntV(1)]

PlayerPayloads(stats) == {PlayerPayload(n, st) : n \in Names, st \in stats}

BulkPayloads(stats) ==
    {[players |-> l] :
        l \in UNION {[1..n -> PlayerPayloads(stats)] : n \in 0..MaxBatch}}

DeletePayloads ==
    {[deletePlayer |-> TRUE, name |-> n] : n \in Names} \cup {[deletePlayer |-> TRUE]}

\* request.json of update-player-data; the empty dict is "no data"
Payloads(stats, bulkStats) ==
    PlayerPayloads(stats) \cup {NamelessPayload} \cup BulkPayloads(bulkStats)
    \cup {[players |-> <<NamelessPayload>>]} \cup DeletePayloads
    \cup {[k \in {} |-> TRUE]}

\* request.args.get("query", "")
Queries ==
    {<<>>, <<"h", "e", "l", "l", "o">>, <<" ", "H", "e", "l", "l", "o", " ">>, <<"h", "e", "l", "l", "o", " ", "t", "h", "e", "r", "e">>, <<"w", "e", "a", "t", "h", "e", "r">>,
     <<"h", "i">>, <<"H", "E", "Y">>, <<"h", "o", "l", "a", " ">>, <<"g", "r", "e", "e", "t", "i", "n", "g", "s">>, <<"h", "i", " ", "p", "l", "a", "y", "e", "r">>, <<" ", " ", " ">>,
     <<"b", "e", "s", "t", " ", "b", "a", "t", "s", "m", "a", "n">>, <<"B", "e", "s", "t", " ", "B", "o", "w", "l", "e", "r">>, <<"b", "e", "s", "t", " ", "a", "l", "l", " ", "r", "o", "u", "n", "d", "e", "r">>, <<"b", "e", "s", "t", " ", "p", "l", "a", "y", "e", "r", "s">>,
     <<"b", "e", "s", "t", " ", "t", "e", "a", "m">>, <<"b", "e", "s", "t", " ", "t", "e", "a", "m", " ", "b", "e", "s", "t", " ", "b", "a", "t", "s", "m", "a", "n">>, <<"b", "a", "t", "s", "m", "e", "n", " ", "s", "t", "a", "t", "s">>, <<"b", "o", "w", "l", "e", "r", "s">>,
     <<"a", "l", "l", "r", "o", "u", "n", "d", "e", "r", "s">>, <<"p", "l", "a", "y", "e", "r", "s">>, <<"p", "l", "a", "y", "e", "r", "s", " ", "a", "n", "d", " ", "b", "o", "w", "l", "e", "r", "s">>, <<"b", "a", "t", "s", "m", "a", "n", " ", "p", "l", "a", "y", "e", "r", "s">>,
     <<"c", "r", "i", "c", "k", "e", "t", " ", "s", "t", "a", "t", "s">>, <<"p", "l", "a", "y", "e", "r", " ", "r", "a", "j">>, <<"p", "l", "a", "y", "e", "r", " ", "R", "a", "j", "a">>, <<"b", "o", "w", "l", "e", "r", "s", " ", "p", "l", "a", "y", "e", "r", " ", "r", "a", "j">>}

\* the queries the system specification sends between updates
FewQueries == {<<"w", "e", "a", "t", "h", "e", "r">>, <<"b", "e", "s", "t", " ", "b", "a", "t", "s", "m", "a", "n">>}

\* the CSV files a router check starts from: up to two rows, names distinct
CsvFiles ==
    {<<>>} \cup {<<NewRow(PlayerPayload(n, st))>> : n \in Names, st \in Stats}
    \cup {<<NewRow(PlayerPayload(n[1], s1)), NewRow(PlayerPayload(n[2], s2))>> :
             n \in {m \in Names \X Names : m[1] # m[2]}, s1 \in Stats, s2 \in Stats}

----------------------------------------------------------------------------
(* The system: ingestion updates and queries over the shared stores *)

NoRequest == [op |-> "none", arg |-> <<>>]

NoResponse == [kind |-> "", handler |-> "", names |-> <<>>, context |-> <<>>]

EmptyCache == [key |-> "empty", val |-> "none"]

\* the values the cache entry takes
CacheStates ==
    {EmptyCache} \cup {[key |-> k, val |-> v] : k \in {"default", "force"},
                                                v \in {"coll", "none"}}

Init ==
    /\ csvExists \in BOOLEAN
    /\ csv = <<>>
    /\ index = <<>>
    /\ cache = EmptyCache
    /\ model \in BOOLEAN
    /\ lastOp = NoRequest
    /\ response = NoResponse
    /\ trace = <<>>
    /\ input = <<>>
    /\ output = <<>>
    /\ pc = "idle"

\* the chromadb client works, or raises; only a cache miss asks it
ChromaOutcomes(force_refresh) ==
    IF cache.key = CacheKey(force_refresh) THEN {TRUE} ELSE BOOLEAN

\* POST /api/update-player-data with request.json = data
update_player_data(data, chromaOk) ==
    LET u == update_csv_data(data, csvExists, csv)
        gc == get_player_collection(TRUE, chromaOk, u.exists, u.file, index, cache)
    IN  /\ lastOp' = [op |-> "update", arg |-> <<>>]
        /\ trace' = <<>>
        /\ UNCHANGED <<model, input, output, pc>>
        /\ IF DOMAIN data = {}
           THEN /\ response' = [NoResponse EXCEPT !.kind = "no_data"]
                /\ UNCHANGED <<csvExists, csv, index, cache>>
           ELSE /\ csvExists' = u.exists
                /\ csv' = u.file
                /\ IF u.ret
                   THEN /\ index' = gc.index
                        /\ cache' = gc.cache
                        /\ response' =
                             [NoResponse EXCEPT !.kind =
                                 IF gc.val = "coll" THEN "update_ok"
                                 ELSE "chroma_failed"]
                   ELSE /\ UNCHANGED <<index, cache>>
                        /\ response' = [NoResponse EXCEPT !.kind = "csv_failed"]

UpdateRequest ==
    \E data \in Payloads(FewStats, {<<120, 0, 2>>}), chromaOk \in ChromaOutcomes(TRUE) :
        update_player_data(data, chromaOk)

\* GET /query/?query=raw
QueryChatbot(raw, chromaOk) ==
    \E r \in query_chatbot(raw, chromaOk, csvExists, csv, index, cache) :
        /\ lastOp' = [op |-> "query", arg |-> raw]
        /\ response' = [kind |-> r.out.kind, handler |-> r.out.handler,
                        names |-> r.out.names, context |-> r.out.context]
        /\ trace' = r.out.trace
        /\ index' = r.index
        /\ cache' = r.cache
        /\ UNCHANGED <<csvExists, csv, model, input, output, pc>>

QueryRequest ==
    \E raw \in FewQueries, chromaOk \in ChromaOutcomes(FALSE) :
        QueryChatbot(raw, chromaOk)

Next == UpdateRequest \/ QueryRequest

Spec == Init /\ [][Next]_vars

----------------------------------------------------------------------------
(* The router alone: one query against each state of the stores *)

InitRouter ==
    /\ csvExists \in BOOLEAN
    /\ csv \in (IF csvExists THEN CsvFiles ELSE {<<>>})
    /\ index \in {<<>>, BuildMetadatas(csv)}
    /\ cache \in CacheStates
    /\ model \in BOOLEAN
    /\ lastOp = NoRequest
    /\ response = NoResponse
    /\ trace = <<>>
    /\ input = <<>>
    /\ output = <<>>
    /\ pc = "idle"

RouterQuery ==
    /\ lastOp = NoRequest
    /\ \E raw \in Queries, chromaOk \in ChromaOutcomes(FALSE) :
          QueryChatbot(raw, chromaOk)

NextRouter == RouterQuery

SpecRouter == InitRouter /\ [][NextRouter]_vars

----------------------------------------------------------------------------
(* update_csv_data alone: one payload against each CSV file *)

InitIngest ==
    /\ csvExists \in BOOLEAN
    /\ csv \in (IF csvExists THEN CsvFiles ELSE {<<>>})
    /\ index = <<>>
    /\ cache = EmptyCache
    /\ model = FALSE
    /\ lastOp = NoRequest
    /\ response = NoResponse
    /\ trace = <<>>
    /\ input = <<>>
    /\ output = <<>>
    /\ pc = "idle"

\* update_csv_data(data): input is the payload, output what it returned
IngestCall ==
    /\ lastOp = NoRequest
    /\ \E data \in Payloads(Stats, Stats) \ {[k \in {} |-> TRUE]} :
          LET u == update_csv_data(data, csvExists, csv)
          IN  /\ csvExists' = u.exists
              /\ csv' = u.file
              /\ input' = data
              /\ output' = u.ret
              /\ lastOp' = [op |-> "update_csv_data", arg |-> <<>>]
              /\ UNCHANGED <<index, cache, model, response, trace, pc>>

NextIngest == IngestCall

SpecIngest == InitIngest /\ [][NextIngest]_vars

----------------------------------------------------------------------------
(* The pure functions of the router, each applied once to a drawn input *)

\* a normalised player record with the fields ranking reads
Player(name, role, runs, wickets, price) ==
    [name |-> name, role |-> role, total_runs |-> IntV(runs),
     wickets |-> IntV(wickets), base_price |-> IntV(price)]

PureInit(inputs) ==
    /\ input \in inputs
    /\ output = <<>>
    /\ pc = "idle"
    /\ csvExists = FALSE
    /\ csv = <<>>
    /\ index = <<>>
    /\ cache = EmptyCache
    /\ model = FALSE
    /\ lastOp = NoRequest
    /\ response = NoResponse
    /\ trace = <<>>

\* output is what the operation named op gives for input
PureCall(op, result) ==
    /\ lastOp = NoRequest
    /\ output' = result
    /\ lastOp' = [op |-> op, arg |-> <<>>]
    /\ UNCHANGED <<csvExists, csv, index, cache, model, response, trace, input, pc>>

\* <<runs, wickets, price>> of ranking inputs, three of each role: one with the
\* lower primary key and the higher price, two tied on the primary key with
\* different prices (the two All-Rounders tie at 90 with different stats)
RankStats ==
    {<<110, 0, 2>>, <<120, 0, 1>>, <<120, 1, 2>>,
     <<0, 6, 2>>, <<10, 7, 1>>, <<0, 7, 2>>,
     <<70, 2, 2>>, <<60, 3, 1>>, <<50, 4, 2>>}

RankNames == <<<<"A", "s", "h", "a">>, <<"B", "i", "m", "a", "l">>, <<"C", "h", "e", "n">>, <<"D", "e", "v">>, <<"E", "s", "i">>>>

\* record lists of up to MaxRank players, named by position, each with the
\* role its stats classify to
RankInputs ==
    UNION {{[i \in 1..n |->
                Player(RankNames[i],
                       classify_player_role(("Total Runs" :> IntV(f[i][1]))
                                             @@ ("Wickets" :> IntV(f[i][2]))),
                       f[i][1], f[i][2], f[i][3])] :
               f \in [1..n -> RankStats]} : n \in 0..MaxRank}

InitRank == PureInit(RankInputs)

\* best_batsman = sorted_batsmen[0], when there is one
BestBatsmanCall == PureCall("best_batsman", Take(sorted_batsmen(input), 1))

BestBowlerCall == PureCall("best_bowler", Take(sorted_bowlers(input), 1))

BestAllRounderCall == PureCall("best_all_rounder", Take(sorted_all_rounders(input), 1))

NextRank == BestBatsmanCall \/ BestBowlerCall \/ BestAllRounderCall

SpecRank == InitRank /\ [][NextRank]_vars

LeadNames ==
    <<<<"L", "1">>, <<"L", "2">>, <<"L", "3">>, <<"L", "4">>, <<"L", "5">>, <<"L", "6">>, <<"L", "7">>, <<"L", "8">>, <<"L", "9">>,
      <<"L", "1", "0">>, <<"L", "1", "1">>, <<"L", "1", "2">>, <<"L", "1", "3">>, <<"L", "1", "4">>, <<"L", "1", "5">>, <<"L", "1", "6">>, <<"L", "1", "7">>, <<"L", "1", "8">>>>

\* nb batsmen, then na all-rounders, then nw bowlers, names distinct, prices
\* falling
Lead(nb, na, nw) ==
    [i \in 1..(nb + na + nw) |->
        IF i <= nb THEN Player(LeadNames[i], <<"B", "a", "t", "s", "m", "a", "n">>, 150, 0, 20 - i)
        ELSE IF i <= nb + na THEN Player(LeadNames[i], <<"A", "l", "l", "-", "R", "o", "u", "n", "d", "e", "r">>, 60, 3, 20 - i)
        ELSE Player(LeadNames[i], <<"B", "o", "w", "l", "e", "r">>, 0, 8, 20 - i)]

\* the records that may follow: one name priced above the lead, and one
\* priced below it as a Batsman, as an All-Rounder and with no role (what
\* normalisation gives a record without one)
TailPlayers ==
    {Player(<<"X", "a", "v", "i">>, <<"B", "a", "t", "s", "m", "a", "n">>, 0, 0, 30), Player(<<"Y", "u", "k", "i">>, <<"B", "a", "t", "s", "m", "a", "n">>, 0, 0, 1),
     Player(<<"Y", "u", "k", "i">>, <<"A", "l", "l", "-", "R", "o", "u", "n", "d", "e", "r">>, 0, 0, 1), Player(<<"Y", "u", "k", "i">>, <<>>, 0, 0, 1)}

TeamInputs ==
    {Lead(nb, na, nw) \o t :
        nb \in 0..MaxLeadBatsmen, na \in 0..MaxLeadAllRounders, nw \in 0..MaxLeadBowlers,
        t \in UNION {[1..n -> TailPlayers] : n \in 0..MaxTail}}

InitTeam == PureInit(TeamInputs)

\* the team, and in trace the team as the batsmen loop and the all-rounders
\* loop left it
BestTeamCall ==
    /\ lastOp = NoRequest
    /\ output' = BestTeam(input)
    /\ trace' = <<<<"after_batsmen", TeamAfterBatsmen(input)>>,
                  <<"after_all_rounders", TeamAfterAllRounders(input)>>>>
    /\ lastOp' = [op |-> "best_team", arg |-> <<>>]
    /\ UNCHANGED <<csvExists, csv, index, cache, model, response, input, pc>>

NextTeam == BestTeamCall

SpecTeam == InitTeam /\ [][NextTeam]_vars

\* a key that a raw record does not hold
Absent == <<"absent", 0>>

\* raw metadata: four fields and a Title-Case twin each take any value or are
\* absent; the other fields are as the index builder writes them
RawRecords ==
    {[k \in {j \in DOMAIN f : f[j] # Absent} |-> f[k]]
        @@ [name |-> <<"R", "a", "j">>, role |-> <<"B", "a", "t", "s", "m", "a", "n">>, base_price |-> IntV(3),
            runs_conceded |-> IntV(4), innings_played |-> IntV(2)] :
        f \in [{"total_runs", "Total Runs", "wickets", "overs_bowled", "balls_faced"}
                  -> {IntV(5), NumStr(7), BadStr, NoneV, Absent}]}

InitNorm == PureInit(RawRecords)

NormalizeCall == PureCall("normalize", NormalizePlayer(input))

NextNorm == NormalizeCall

SpecNorm == InitNorm /\ [][NextNorm]_vars

----------------------------------------------------------------------------
(* An update request running step by step, with one query alongside it *)

\* batch_size of collection.add
batch_size == 100

\* a populated index that a query has read before (its accessor call is
\* cached), and an update request about to run
InitRefresh ==
    /\ csvExists = TRUE
    /\ csv \in CsvFiles \ {<<>>}
    /\ index = BuildMetadatas(csv)
    /\ cache = [key |-> "default", val |-> "coll"]
    /\ model = FALSE
    /\ lastOp = NoRequest
    /\ response = NoResponse
    /\ trace = <<>>
    /\ input \in {[data |-> d, pre |-> csv] : d \in Payloads(FewStats, {<<120, 0, 2>>})}
    /\ output = <<>>
    /\ pc = "idle"

\* csv_update_success = update_csv_data(data)
RefreshWriteCsv ==
    /\ pc = "idle"
    /\ LET u == update_csv_data(input.data, csvExists, csv)
       IN  IF DOMAIN input.data = {}
           THEN pc' = "done" /\ UNCHANGED <<csvExists, csv>>
           ELSE /\ csvExists' = u.exists
                /\ csv' = u.file
                /\ pc' = IF u.ret THEN "csv_updated" ELSE "done"
    /\ UNCHANGED <<index, cache, model, lastOp, response, trace, input, output>>

\* get_player_collection(force_refresh=True): a cache hit returns at once, a
\* miss starts the body with client.delete_collection
RefreshDelete ==
    /\ pc = "csv_updated"
    /\ IF cache.key = CacheKey(TRUE)
       THEN pc' = "done" /\ UNCHANGED index
       ELSE pc' = "deleted" /\ index' = <<>>
    /\ UNCHANGED <<csvExists, csv, cache, model, lastOp, response, trace, input, output>>

\* client.get_or_create_collection: the collection exists again, empty
RefreshCreate ==
    /\ pc = "deleted"
    /\ pc' = "created"
    /\ UNCHANGED <<csvExists, csv, index, cache, model, lastOp, response, trace, input,
                   output>>

\* one collection.add of the batch loop; the call returns, and its value is
\* cached, after the last batch
RefreshAdd ==
    /\ pc = "created"
    /\ LET body == CollectionBody(TRUE, TRUE, csvExists, csv, <<>>)
           upto == IF Len(index) + batch_size < Len(body.index)
                   THEN Len(index) + batch_size ELSE Len(body.index)
       IN  /\ index' = SubSeq(body.index, 1, upto)
           /\ IF upto = Len(body.index)
              THEN /\ pc' = "done"
                   /\ cache' = [key |-> CacheKey(TRUE), val |-> body.val]
              ELSE UNCHANGED <<pc, cache>>
    /\ UNCHANGED <<csvExists, csv, model, lastOp, response, trace, input, output>>

\* GET /query/ wherever the update request stands; output is what
\* collection.get() gave it
ConcurrentQuery ==
    /\ lastOp = NoRequest
    /\ \E r \in query_chatbot(<<"b", "e", "s", "t", " ", "b", "a", "t", "s", "m", "a", "n">>, TRUE, csvExists, csv, index, cache) :
          /\ lastOp' = [op |-> "query", arg |-> pc]
          /\ response' = [kind |-> r.out.kind, handler |-> r.out.handler,
                          names |-> r.out.names, context |-> r.out.context]
          /\ trace' = r.out.trace
          /\ index' = r.index
          /\ cache' = r.cache
          /\ output' = r.index
    /\ UNCHANGED <<csvExists, csv, model, input, pc>>

NextRefresh ==
    RefreshWriteCsv \/ RefreshDelete \/ RefreshCreate \/ RefreshAdd \/ ConcurrentQuery

SpecRefresh == InitRefresh /\ [][NextRefresh]_vars

----------------------------------------------------------------------------
(* Ingestion and index builds over cells of every kind *)

\* <<runs, wickets>> as submitted: integers, text that spells a number, an
\* empty cell, text that spells none
RawStatLines ==
    {<<IntV(120), IntV(0)>>, <<NumStr(10), IntV(6)>>, <<NaNV, IntV(6)>>,
     <<IntV(120), NaNV>>, <<BadStr, IntV(6)>>}

RawPayloads ==
    {[name |-> n, tournamentData |-> [runs |-> st[1], wickets |-> st[2]],
      basePrice |-> IntV(1)] : n \in Names, st \in RawStatLines}
    \cup {[deletePlayer |-> TRUE, name |-> n] : n \in Names}

InitBuild == Init /\ ~model

BuildUpdate ==
    \E data \in RawPayloads, chromaOk \in ChromaOutcomes(TRUE) :
        update_player_data(data, chromaOk)

BuildQuery ==
    \E chromaOk \in ChromaOutcomes(FALSE) : QueryChatbot(<<"b", "e", "s", "t", " ", "b", "a", "t", "s", "m", "a", "n">>, chromaOk)

NextBuild == BuildUpdate \/ BuildQuery

SpecBuild == InitBuild /\ [][NextBuild]_vars

----------------------------------------------------------------------------
(* The best-players handler on record sets of more than ten *)

\* base price of the i-th record: rising, falling, all equal, or mixed with
\* ties
PricePatterns ==
    {[i \in 1..14 |-> i], [i \in 1..14 |-> 20 - i], [i \in 1..14 |-> 7],
     [i \in 1..14 |-> (i * 5) % 7]}

BestInputs ==
    {[i \in 1..n |-> Player(LeadNames[i], <<"B", "a", "t", "s", "m", "a", "n">>, 150, 0, f[i])] :
        n \in 0..MaxPlayers, f \in PricePatterns}

InitBest ==
    /\ input \in BestInputs
    /\ model \in BOOLEAN
    /\ output = <<>>
    /\ csvExists = FALSE
    /\ csv = <<>>
    /\ index = <<>>
    /\ cache = EmptyCache
    /\ lastOp = NoRequest
    /\ response = NoResponse
    /\ trace = <<>>
    /\ pc = "idle"

\* the "best players" branch on the records input
BestPlayersCall ==
    /\ lastOp = NoRequest
    /\ \E o \in BestPlayersHandler(input, <<>>) :
          /\ response' = [kind |-> o.kind, handler |-> o.handler,
                          names |-> o.names, context |-> o.context]
          /\ trace' = o.trace
    /\ lastOp' = [op |-> "best_players", arg |-> <<>>]
    /\ UNCHANGED <<csvExists, csv, index, cache, model, input, output, pc>>

NextBest == BestPlayersCall

SpecBest == InitBest /\ [][NextBest]_vars

----------------------------------------------------------------------------
(* Queries one after another against a filled collection: the outbound calls *)

\* queries that reach the handlers calling the text-generation service
CallQueries == {<<"b", "e", "s", "t", " ", "b", "a", "t", "s", "m", "a", "n">>, <<"p", "l", "a", "y", "e", "r", " ", "r", "a", "j">>, <<"p", "l", "a", "y", "e", "r", "s">>, <<"c", "r", "i", "c", "k", "e", "t", " ", "s", "t", "a", "t", "s">>}

InitCalls ==
    /\ csvExists = TRUE
    /\ csv \in CsvFiles \ {<<>>}
    /\ index = BuildMetadatas(csv)
    /\ cache = [key |-> "default", val |-> "coll"]
    /\ model \in BOOLEAN
    /\ lastOp = NoRequest
    /\ response = NoResponse
    /\ trace = <<>>
    /\ input = <<>>
    /\ output = <<>>
    /\ pc = "idle"

CallsRequest == \E raw \in CallQueries : QueryChatbot(raw, TRUE)

NextCalls == CallsRequest

SpecCalls == InitCalls /\ [][NextCalls]_vars

----------------------------------------------------------------------------
(* Claims *)

\* the records the next query reads: get_player_collection() and then
\* collection.get()
NextQueryRecords ==
    get_player_collection(FALSE, TRUE, csvExists, csv, index, cache).index

\* C1: once an update request has returned success, the record set the index
\* returns to the next query equals the contents of the CSV store after that
\* update, also when updates arrive in a row with no query between them.
C1_IndexReflectsCsvAfterUpdate ==
    (lastOp.op = "update" /\ response.kind = "update_ok")
        => NextQueryRecords = BuildMetadatas(csv)

\* the rows of the CSV file that carry name n
RowsNamed(n) == {i \in 1..Len(csv) : csv[i]["Name"] = n}

\* row carries the stats player_data submitted
CarriesStats(row, player_data) ==
    \A col \in {"Category", "Total Runs", "Balls Faced", "Innings Played",
                "Wickets", "Overs Bowled", "Runs Conceded", "Base Price"} :
        row[col] = NewRow(player_data)[col]

\* C2: after update_csv_data with a 'players' list returns True, the CSV store
\* holds, for every named player of the list (the last entry of a name that
\* occurs twice), exactly one row with that name, carrying the submitted stats.
C2_BulkUpsertsEveryPlayer ==
    (lastOp.op = "update_csv_data" /\ output = TRUE /\ "players" \in DOMAIN input)
        => \A i \in 1..Len(input["players"]) :
              LET p == input["players"][i]
              IN  ("name" \in DOMAIN p
                   /\ \A j \in (i + 1)..Len(input["players"]) :
                         "name" \in DOMAIN input["players"][j]
                            => input["players"][j]["name"] # p["name"])
                  => /\ Cardinality(RowsNamed(p["name"])) = 1
                     /\ \A r \in RowsNamed(p["name"]) : CarriesStats(csv[r], p)

\* the positions of the trace that hold a step of the given kind
Steps(kind) == {i \in DOMAIN trace : trace[i][1] = kind}

\* every outbound text-generation call of the request failed (or none was
\* made: the service is unconfigured)
AllGenFailed ==
    \A i \in DOMAIN trace :
        trace[i][1] \in {"generate_content", "get_gemini_response"}
            => trace[i][2] = "fail"

\* the similarity search the answer rests on returned results
LastSearchHit ==
    /\ Steps("query_k1") \cup Steps("query_k3") # {}
    /\ LET last == CHOOSE i \in Steps("query_k1") \cup Steps("query_k3") :
                      \A j \in Steps("query_k1") \cup Steps("query_k3") : j <= i
       IN  trace[last][2] = "hit"

\* C3: with the text-generation collaborator failing on every call (or
\* unconfigured) and at least one record in storage, every intent handler,
\* the free-form fallback included when its similarity search returns results,
\* answers with formatted text: never the generic error, never nothing.
C3_HandlersAnswerWithoutEnhancement ==
    (/\ lastOp.op = "query"
     /\ response.handler # ""
     /\ AllGenFailed
     /\ (response.handler = "fallback" => LastSearchHit))
        => response.kind \notin {"error", ""}

\* the phrases of the nine rules, in their fixed order
RulePhrases ==
    <<{<<"b", "e", "s", "t", " ", "b", "a", "t", "s", "m", "a", "n">>},
      {<<"b", "e", "s", "t", " ", "b", "o", "w", "l", "e", "r">>},
      {<<"b", "e", "s", "t", " ", "a", "l", "l", "-", "r", "o", "u", "n", "d", "e", "r">>, <<"b", "e", "s", "t", " ", "a", "l", "l", " ", "r", "o", "u", "n", "d", "e", "r">>, <<"b", "e", "s", "t", " ", "a", "l", "l", "r", "o", "u", "n", "d", "e", "r">>},
      {<<"b", "e", "s", "t", " ", "p", "l", "a", "y", "e", "r", "s">>},
      {<<"b", "e", "s", "t", " ", "t", "e", "a", "m">>},
      {<<"b", "a", "t", "s", "m", "e", "n">>, <<"b", "a", "t", "s", "m", "a", "n", " ", "l", "i", "s", "t">>},
      {<<"b", "o", "w", "l", "e", "r", "s">>, <<"b", "o", "w", "l", "e", "r", " ", "l", "i", "s", "t">>},
      {<<"a", "l", "l", "-", "r", "o", "u", "n", "d", "e", "r", "s">>, <<"a", "l", "l", " ", "r", "o", "u", "n", "d", "e", "r", "s">>, <<"a", "l", "l", "r", "o", "u", "n", "d", "e", "r", "s">>},
      {<<"p", "l", "a", "y", "e", "r", "s">>}>>

RuleHandlers ==
    <<"best_batsman", "best_bowler", "best_all_rounder", "best_players", "best_team",
      "list_batsmen", "list_bowlers", "list_all_rounders", "mixed_players", "fallback">>

PhraseOccurs(i, q) == \E ph \in RulePhrases[i] : Contains(q, ph)

\* the first rule with a phrase in q; the tenth, the fallback, when none has
FirstRule(q) ==
    IF \E i \in 1..9 : PhraseOccurs(i, q)
    THEN CHOOSE i \in 1..9 : PhraseOccurs(i, q) /\ \A j \in 1..(i - 1) : ~PhraseOccurs(j, q)
    ELSE 10

\* C5: a query that reaches the phrase rules is handled by the handler of the
\* first rule, in the fixed order, whose phrase occurs in the lowercased
\* query, and by that handler alone; with 'players' and no earlier phrase it
\* is the mixed-types handler, never the fallback.
C5_FirstMatchingRuleHandles ==
    (lastOp.op = "query" /\ response.handler \notin {"", "name_search"})
        => /\ response.handler = RuleHandlers[FirstRule(Lower(Strip(lastOp.arg)))]
           /\ Cardinality(Steps("handler")) = 1
           /\ \A i \in Steps("handler") : trace[i][2] = response.handler

\* a query with the word 'players' and an earlier rule's phrase went to the
\* earlier rule, and one with 'players' alone went to the mixed-types handler
C5_Witness ==
    /\ lastOp.op = "query"
    /\ Contains(Lower(lastOp.arg), <<"p", "l", "a", "y", "e", "r", "s">>)
    /\ response.handler = "list_bowlers"

\* the records whose name contains the fragment, case-insensitively
NameMatches(fragment) ==
    {i \in 1..Len(index) : Contains(Lower(index[i]["name"]), Lower(fragment))}

\* C8: in the name-search stage, more than one record matching the extracted
\* fragment gives the disambiguation prompt naming all of them, and the
\* enhancement service is not asked to write the answer; exactly one match
\* gives an answer about that record, enhanced or in the single-record format.
C8_AmbiguousNameIsDisambiguated ==
    \A s \in Steps("name_search") :
        LET m == NameMatches(trace[s][2])
        IN  /\ Cardinality(m) > 1
                => /\ response.kind = "disambiguation"
                   /\ Len(response.names) = Cardinality(m)
                   /\ \A i \in m : \E k \in 1..Len(response.names) :
                         response.names[k] = index[i]["name"]
                   /\ Steps("get_gemini_response") = {}
            /\ (Cardinality(m) = 1 /\ trace[s][2] # <<>>)
                => /\ response.handler = "name_search"
                   /\ response.kind \in {"enhanced", "player_info"}
                   /\ \A i \in m : response.names = <<index[i]["name"]>>

C8_Witness ==
    /\ response.kind = "disambiguation"
    /\ Len(response.names) = 2
    /\ model

CricketKeywords ==
    {<<"c", "r", "i", "c", "k", "e", "t">>, <<"p", "l", "a", "y", "e", "r">>, <<"b", "a", "t", "s", "m", "a", "n">>, <<"b", "o", "w", "l", "e", "r">>, <<"a", "l", "l", "-", "r", "o", "u", "n", "d", "e", "r">>, <<"a", "l", "l", "r", "o", "u", "n", "d", "e", "r">>,
     <<"t", "e", "a", "m">>, <<"r", "u", "n", "s">>, <<"w", "i", "c", "k", "e", "t", "s">>, <<"i", "n", "n", "i", "n", "g", "s">>, <<"s", "t", "a", "t", "s">>, <<"s", "t", "a", "t", "i", "s", "t", "i", "c", "s">>,
     <<"b", "a", "t", "t", "i", "n", "g">>, <<"b", "o", "w", "l", "i", "n", "g">>, <<"s", "c", "o", "r", "e">>, <<"m", "a", "t", "c", "h">>, <<"t", "o", "u", "r", "n", "a", "m", "e", "n", "t">>,
     <<"p", "e", "r", "f", "o", "r", "m", "a", "n", "c", "e">>, <<"b", "e", "s", "t">>}

GreetingWords == {<<"h", "i">>, <<"h", "e", "l", "l", "o">>, <<"h", "e", "y">>, <<"g", "r", "e", "e", "t", "i", "n", "g", "s">>, <<"h", "o", "l", "a">>}

\* q is non-empty, is no greeting and holds no cricket keyword
OffDomain(q) ==
    /\ Strip(q) # <<>>
    /\ Lower(Strip(q)) \notin GreetingWords
    /\ \A k \in CricketKeywords : ~Contains(Lower(q), k)

\* C10: an off-domain query gets the refusal in every storage state, and
\* answering it neither reads nor writes the index or the CSV store.
C10_OffDomainRefusedWithoutStorage ==
    [][(lastOp'.op = "query" /\ OffDomain(lastOp'.arg))
          => /\ response'.kind = "refusal"
             /\ trace' = <<>>
             /\ UNCHANGED <<csvExists, csv, index, cache>>]_vars

\* refused while the index accessor is in its failed state
C10_Witness ==
    /\ lastOp.op = "query"
    /\ OffDomain(lastOp.arg)
    /\ response.kind = "refusal"
    /\ cache.val = "none"
    /\ cache.key = "default"

\* C4: the team of best-team selection has at most 11 members, no two of them
\* with the same name, and is empty only if the input record set is empty.
C4_TeamBoundedDistinctNonEmpty ==
    lastOp.op = "best_team"
        => /\ Len(output) <= 11
           /\ \A i \in 1..Len(output), j \in 1..Len(output) :
                 output[i]["name"] = output[j]["name"] => i = j
           /\ output = <<>> => input = <<>>

\* the positions of input that hold a record of the role
OfRoleAt(role) == {i \in 1..Len(input) : Lower(input[i]["role"]) = role}

\* i is the record the ranking must select among the positions c: maximal on
\* the primary key, then maximal on base price, then first in input order
Selected(i, c, primary(_)) ==
    /\ i \in c
    /\ \A j \in c :
          \/ primary(input[i]) > primary(input[j])
          \/ /\ primary(input[i]) = primary(input[j])
             /\ input[i]["base_price"][2] > input[j]["base_price"][2]
          \/ /\ primary(input[i]) = primary(input[j])
             /\ input[i]["base_price"][2] = input[j]["base_price"][2]
             /\ i <= j

Runs(p) == p["total_runs"][2]

Wkts(p) == p["wickets"][2]

Score(p) == p["total_runs"][2] + 10 * p["wickets"][2]

RankedRight(role, primary(_)) ==
    IF OfRoleAt(role) = {} THEN output = <<>>
    ELSE /\ Len(output) = 1
         /\ \E i \in OfRoleAt(role) : Selected(i, OfRoleAt(role), primary) /\ output[1] = input[i]

NumericFields ==
    {"total_runs", "balls_faced", "innings_played", "wickets", "overs_bowled",
     "runs_conceded", "base_price"}

\* C7: after the normalisation pass every numeric field of the record is
\* present and numeric, and is 0 where the raw value was missing or could not
\* be parsed, whatever the other fields hold.
C7_NormalizedFieldsNumeric ==
    lastOp.op = "normalize"
        => \A k \in NumericFields :
              /\ k \in DOMAIN output
              /\ output[k][1] \in {"int", "float"}
              /\ (k \in DOMAIN input /\ input[k][1] \in {"bad", "none"}) => output[k][2] = 0

\* the queries sent that are a greeting once trimmed and lowercased
GreetingQueries == {q \in Queries : Lower(Strip(q)) \in GreetingWords}

\* the queries sent that the domain filter rejects
RejectedQueries == {q \in Queries : ~validate_cricket_query(Strip(q))}

\* C11: a query gets the canned greeting exactly when, trimmed and lowercased,
\* it equals one of hi, hello, hey, greetings, hola; the greeting is given
\* though the domain filter rejects the word, with no call made and the stores
\* untouched; a query that only contains a greeting word goes on to the domain
\* filter and is refused when it has no cricket keyword.
C11_GreetingOnlyOnExactMatch ==
    [][lastOp'.op = "query"
          => /\ response'.kind = "greeting" <=> lastOp'.arg \in GreetingQueries
             /\ response'.kind = "greeting"
                   => /\ lastOp'.arg \in RejectedQueries
                      /\ trace' = <<>>
                      /\ UNCHANGED <<csvExists, csv, index, cache>>
             /\ (/\ Strip(lastOp'.arg) # <<>>
                 /\ lastOp'.arg \in RejectedQueries \ GreetingQueries)
                   => response'.kind = "refusal"]_vars

\* 'hello there' was refused
C11_Witness ==
    /\ lastOp.op = "query"
    /\ lastOp.arg = <<"h", "e", "l", "l", "o", " ", "t", "h", "e", "r", "e">>
    /\ response.kind = "refusal"

\* the index contents before the update request and after it
PreRefreshSet == BuildMetadatas(input.pre)

PostRefreshSet == BuildMetadatas(update_csv_data(input.data, TRUE, input.pre).file)

\* C12: a query that runs alongside an update request and its forced rebuild
\* reads the complete record set of before the refresh or the complete set of
\* after it, never a deleted, empty or partly re-added index.
C12_ConcurrentQueryReadsWholeSet ==
    lastOp.op = "query" => output \in {PreRefreshSet, PostRefreshSet}

\* the responses of the five failure classes: rejected input, storage
\* unavailable, ambiguous match, no result (the fifth, enhancement unavailable,
\* shows as a formatted answer)
TaxonomyKinds ==
    {"provide_query", "refusal", "database_error", "no_players", "disambiguation",
     "not_found", "no_batsmen", "no_bowlers", "no_all_rounders"}

\* the answers: the greeting, enhanced prose, and the formatted texts
AnswerKinds ==
    {"greeting", "enhanced", "player_info", "best_batsman", "best_bowler",
     "best_all_rounder", "top_players", "team", "top_batsmen", "top_bowlers",
     "top_all_rounders", "typed_players", "all_types"}

RoleRule(runs, wickets) ==
    IF wickets > 5 /\ runs < 50 THEN <<"B", "o", "w", "l", "e", "r">>
    ELSE IF runs > 100 /\ wickets < 3 THEN <<"B", "a", "t", "s", "m", "a", "n">>
    ELSE <<"A", "l", "l", "-", "R", "o", "u", "n", "d", "e", "r">>

\* C14: after any sequence of ingestion updates and index builds, every record
\* of the index has one of the three roles, the one the rule gives for the
\* record's own stored total_runs and wickets; and the best-batsman answer
\* names a record whose stored role is Batsman.
C14_StoredRoleFollowsRule ==
    /\ \A i \in 1..Len(index) :
          /\ index[i]["role"] \in {<<"B", "a", "t", "s", "m", "a", "n">>, <<"B", "o", "w", "l", "e", "r">>, <<"A", "l", "l", "-", "R", "o", "u", "n", "d", "e", "r">>}
          /\ index[i]["total_runs"][1] = "int"
          /\ index[i]["wickets"][1] = "int"
          /\ index[i]["role"] = RoleRule(index[i]["total_runs"][2], index[i]["wickets"][2])
    /\ (lastOp.op = "query" /\ response.kind = "best_batsman")
          => \E i \in 1..Len(index) :
                /\ response.names = <<index[i]["name"]>>
                /\ index[i]["role"] = <<"B", "a", "t", "s", "m", "a", "n">>

\* a row with an empty runs cell was indexed as a Bowler with 0 runs, beside a
\* Batsman
C14_Witness ==
    /\ Len(index) = 2
    /\ Len(csv) = 2
    /\ \E i \in 1..2 :
          /\ csv[i]["Total Runs"] = NaNV
          /\ index[i]["total_runs"] = IntV(0)
          /\ index[i]["role"] = <<"B", "o", "w", "l", "e", "r">>
    /\ \E i \in 1..2 : index[i]["role"] = <<"B", "a", "t", "s", "m", "a", "n">>

\* C15 as stated: a query, whatever its outcome, leaves the CSV store and the
\* records held by the index as they were.
C15_QueryLeavesStorage ==
    [][lastOp'.op = "query" => UNCHANGED <<csvExists, csv, index>>]_vars

\* C15, amended: a query never changes the CSV store and never changes an
\* index that holds records; it changes the index only by filling an empty
\* index from the CSV file, when its accessor call is not answered from the
\* cache.
C15_QueryOnlyFillsEmptyIndex ==
    [][lastOp'.op = "query"
          => /\ UNCHANGED <<csvExists, csv>>
             /\ index # <<>> => index' = index
             /\ index' # index
                   => /\ index = <<>>
                      /\ csvExists
                      /\ index' = BuildMetadatas(csv)
                      /\ cache.key # CacheKey(FALSE)
                      /\ cache'.key = CacheKey(FALSE)]_vars

\* a query was answered from an index that holds records, after its accessor
\* call ran the body
C15_Witness ==
    /\ lastOp.op = "query"
    /\ response.kind = "best_batsman"
    /\ index # <<>>
    /\ trace[1] = <<"get_player_collection", "miss">>

\* the position of input that holds the record named n
PositionOf(n) == CHOOSE i \in 1..Len(input) : input[i]["name"] = n

\* record i ranks before record j: the higher base price, and of two equal
\* ones the earlier
RanksBefore(i, j) ==
    \/ input[i]["base_price"][2] > input[j]["base_price"][2]
    \/ /\ input[i]["base_price"][2] = input[j]["base_price"][2]
       /\ i < j

\* names lists the first k records (all, if fewer) of input by base price
\* descending
IsTopByPrice(names, k) ==
    /\ Len(names) = (IF Len(input) < k THEN Len(input) ELSE k)
    /\ \A a \in 1..Len(names) : \E i \in 1..Len(input) : input[i]["name"] = names[a]
    /\ \A a \in 1..Len(names), b \in 1..Len(names) :
          a < b => RanksBefore(PositionOf(names[a]), PositionOf(names[b]))
    /\ \A i \in 1..Len(input) :
          (\A a \in 1..Len(names) : names[a] # input[i]["name"])
             => \A a \in 1..Len(names) : RanksBefore(PositionOf(names[a]), i)

\* C16 as stated: the best-players subset is the first 10 records by base
\* price descending, and that subset is what the Enhancement Adapter is
\* passed and what the Formatter renders on fallback.
C16_SameTopTenEnhancedAndFormatted ==
    lastOp.op = "best_players"
        => /\ response.kind = "top_players" => IsTopByPrice(response.names, 10)
           /\ Steps("get_gemini_response") # {} => IsTopByPrice(response.context, 10)

\* C16, amended: the Formatter renders the first 10 records by base price
\* descending; the Enhancement Adapter, called when the service is configured
\* and there are records, is passed the first 5 of them.
C16_TopTenFormattedTopFiveEnhanced ==
    lastOp.op = "best_players"
        => /\ response.kind = "top_players" => IsTopByPrice(response.names, 10)
           /\ Steps("get_gemini_response") # {} => IsTopByPrice(response.context, 5)
           /\ Steps("get_gemini_response") # {} <=> (model /\ input # <<>>)
           /\ response.kind \in {"top_players", "enhanced"}

\* more than ten records, not in price order: the adapter was passed five and
\* failed, the Formatter rendered ten
C16_Witness ==
    /\ lastOp.op = "best_players"
    /\ Len(input) > 10
    /\ response.kind = "top_players"
    /\ Len(response.names) = 10
    /\ Len(response.context) = 5
    /\ response.names[1] # input[1]["name"]

\* the team when the batsmen fill ended, and when the bowlers fill started
AfterBatsmen == trace[1][2]

AfterAllRounders == trace[2][2]

\* C17 as stated: between the end of the batsmen fill and the start of the
\* bowlers fill at most 2 All-Rounders are added, and the team has at most 7
\* members when the bowlers fill starts.
C17_AtMostTwoAllRoundersAdded ==
    lastOp.op = "best_team"
        => /\ Len(AfterAllRounders) - Len(AfterBatsmen) <= 2
           /\ Len(AfterAllRounders) <= 7

\* C17, amended: the all-rounders fill adds All-Rounders, of names not yet in
\* the team, until the team has 7 members or none is left; the team has at
\* most 7 members when the bowlers fill starts, and at most 2 were added when
\* the batsmen fill had found five batsmen.
C17_AllRoundersFillToSeven ==
    lastOp.op = "best_team"
        => /\ Len(AfterBatsmen) <= 5
           /\ Len(AfterAllRounders) <= 7
           /\ Len(AfterBatsmen) <= Len(AfterAllRounders)
           /\ SubSeq(AfterAllRounders, 1, Len(AfterBatsmen)) = AfterBatsmen
           /\ \A k \in (Len(AfterBatsmen) + 1)..Len(AfterAllRounders) :
                 /\ Lower(AfterAllRounders[k]["role"]) = <<"a", "l", "l", "-", "r", "o", "u", "n", "d", "e", "r">>
                 /\ \A j \in 1..(k - 1) :
                       AfterAllRounders[j]["name"] # AfterAllRounders[k]["name"]
           /\ Len(AfterBatsmen) = 5 => Len(AfterAllRounders) - Len(AfterBatsmen) <= 2
           /\ Len(AfterAllRounders) < 7
                 => \A i \in OfRoleAt(<<"a", "l", "l", "-", "r", "o", "u", "n", "d", "e", "r">>) :
                       \E k \in 1..Len(AfterAllRounders) :
                          AfterAllRounders[k]["name"] = input[i]["name"]

\* fewer than five batsmen, and more than two All-Rounders added
C17_Witness ==
    /\ lastOp.op = "best_team"
    /\ Len(AfterBatsmen) < 5
    /\ Len(AfterBatsmen) > 0
    /\ Len(AfterAllRounders) - Len(AfterBatsmen) > 2

\* the request was in-domain: not empty, not a greeting, not refused
InDomainQuery ==
    /\ lastOp.op = "query"
    /\ Strip(lastOp.arg) # <<>>
    /\ lastOp.arg \notin GreetingQueries \cup RejectedQueries

\* the request could not obtain the collection
CollectionMissing == InDomainQuery /\ cache.val = "none"

\* the request obtained the collection and found no record in it
CollectionEmpty == InDomainQuery /\ cache.val = "coll" /\ index = <<>>

\* the request read the collection at most, ranked nothing and raised nothing
NothingRanked ==
    /\ response.kind # "error"
    /\ response.names = <<>>
    /\ \A k \in 1..Len(trace) : trace[k][1] \in {"get_player_collection", "collection"}

\* C18 as stated: an in-domain query gets the 'try again later' response
\* both when the collection could not be obtained and when it holds no
\* records; in neither case is storage ranked or an exception raised.
C18_TryAgainLaterOnMissingOrEmpty ==
    CollectionMissing \/ CollectionEmpty
        => /\ Contains(Lower(ResponseText(response.kind)), <<"t", "r", "y", " ", "a", "g", "a", "i", "n", " ", "l", "a", "t", "e", "r">>)
           /\ NothingRanked

\* C18, amended: an in-domain query gets "Error accessing player database.
\* Please try again later." when the collection could not be obtained, and
\* "No players found in the database.", a text without 'try again later',
\* when the collection holds no records; in neither case is storage ranked
\* or an exception raised.
C18_MissingRetriesEmptyReportsNoPlayers ==
    /\ CollectionMissing
          => /\ response.kind = "database_error"
             /\ Contains(Lower(ResponseText(response.kind)), <<"t", "r", "y", " ", "a", "g", "a", "i", "n", " ", "l", "a", "t", "e", "r">>)
             /\ NothingRanked
    /\ CollectionEmpty
          => /\ response.kind = "no_players"
             /\ ResponseText(response.kind) = <<"N", "o", " ", "p", "l", "a", "y", "e", "r", "s", " ", "f", "o", "u", "n", "d", " ", "i", "n", " ", "t", "h", "e", " ", "d", "a", "t", "a", "b", "a", "s", "e", ".">>
             /\ ~Contains(Lower(ResponseText(response.kind)), <<"t", "r", "y", " ", "a", "g", "a", "i", "n", " ", "l", "a", "t", "e", "r">>)
             /\ NothingRanked

\* an in-domain query found the collection empty
C18_Witness ==
    /\ CollectionEmpty
    /\ response.kind = "no_players"
    /\ trace = <<<<"get_player_collection", "hit">>, <<"collection", "get">>>>

\* the positions of the trace that hold an outbound text-generation call
OutboundCalls == Steps("generate_content") \cup Steps("get_gemini_response")

\* the position of the first outbound call of the request, 0 when it made none
FirstCall ==
    IF OutboundCalls = {} THEN 0
    ELSE CHOOSE i \in OutboundCalls : \A j \in OutboundCalls : i <= j

\* a request that repeats the query of the request before it makes its first
\* outbound call where that one made it, whatever became of that call
NextRequestCallsAgain ==
    (lastOp.op = "query" /\ lastOp'.op = "query" /\ lastOp'.arg = lastOp.arg)
        => /\ FirstCall' = FirstCall
           /\ FirstCall # 0 => trace'[FirstCall'][1] = trace[FirstCall][1]

\* C19 as stated: an invocation of the Enhancement Adapter makes one outbound
\* call and does not retry; after a failed text-generation call the request
\* makes no further outbound call; the next request attempts the call again.
C19_NoCallAfterFailedCall ==
    /\ [](lastOp.op = "query"
            => /\ Cardinality(Steps("get_gemini_response")) <= 1
               /\ \A i \in OutboundCalls, j \in OutboundCalls :
                     trace[i][2] = "fail" => j <= i)
    /\ [][NextRequestCallsAgain]_vars

\* C19, amended: a request invokes the Enhancement Adapter at most once, and
\* the invocation makes one outbound call without retrying: a failed call of
\* the adapter is the last outbound call of the request. The handlers' own
\* analysis calls are separate: after a failed analysis call the name search
\* and the mixed-types handler still invoke the adapter, so a further
\* outbound call is made in that request; only the free-form fallback makes
\* none after its analysis call failed. The next request attempts the call
\* again.
C19_AdapterCallsOnceHandlersCallOn ==
    /\ [](lastOp.op = "query"
            => /\ Cardinality(Steps("get_gemini_response")) <= 1
               /\ \A i \in Steps("get_gemini_response"), j \in OutboundCalls :
                     trace[i][2] = "fail" => j <= i
               /\ \A i \in Steps("generate_content"), j \in OutboundCalls :
                     (trace[i][2] = "fail" /\ j > i)
                        => /\ trace[j][1] = "get_gemini_response"
                           /\ response.handler \in {"name_search", "mixed_players"}
               /\ \A i \in Steps("generate_content"), h \in Steps("handler") :
                     (trace[i][2] = "fail" /\ h < i /\ trace[h][2] = "fallback")
                        => \A j \in OutboundCalls : j <= i)
    /\ [][NextRequestCallsAgain]_vars

\* a request whose analysis call failed and whose adapter was then invoked
C19_Witness ==
    /\ lastOp.op = "query"
    /\ \E i \in Steps("generate_content"), j \in Steps("get_gemini_response") :
          trace[i][2] = "fail" /\ i < j

\* the list the type extraction of the mixed-types handler left
ExtractedTypes == trace[CHOOSE p \in Steps("player_types") : TRUE][2]

\* the types keyword detection finds in the query, all three when it finds none
FallbackTypes ==
    LET kw == KeywordTypes(Lower(Strip(lastOp.arg)))
    IN  IF kw = <<>> THEN <<"batsmen", "bowlers", "all-rounders">> ELSE kw

\* the top five by base price of each of the fallback types
FallbackNames ==
    LET players == NormalizePlayers(index)
    IN  NamesOf((IF InList("batsmen", FallbackTypes)
                 THEN TopFive(players, <<"b", "a", "t", "s", "m", "a", "n">>) ELSE <<>>)
                \o (IF InList("bowlers", FallbackTypes)
                    THEN TopFive(players, <<"b", "o", "w", "l", "e", "r">>) ELSE <<>>)
                \o (IF InList("all-rounders", FallbackTypes)
                    THEN TopFive(players, <<"a", "l", "l", "-", "r", "o", "u", "n", "d", "e", "r">>) ELSE <<>>))

\* C20: in the mixed-types handler, when the type extraction failed or
\* detected none of batsmen, bowlers, all-rounders (empty or unrecognised text
\* included), the answer is the one of keyword detection on the query or, if
\* that finds no type, the all-types answer; it is never a header that lists
\* no players while records of those roles exist.
C20_UndetectedTypesFallBackToKeywords ==
    (/\ lastOp.op = "query"
     /\ response.handler = "mixed_players"
     /\ \A t \in {"batsmen", "bowlers", "all-rounders"} : ~InList(t, ExtractedTypes))
        => /\ response.names = FallbackNames
           /\ ~(response.kind = "typed_players" /\ response.names = <<>>
                /\ FallbackNames # <<>>)

\* index initialisation would succeed now: the client works and the CSV file,
\* if there is one, builds
InitialisationWouldSucceed ==
    CollectionBody(FALSE, TRUE, csvExists, csv, index).val = "coll"

\* C21: a storage-initialisation failure is not sticky: when a query got the
\* storage-unavailable response and the cause is gone, the next in-domain
\* query, with no ingestion update in between, attempts the initialisation
\* again and is answered from storage.
C21_InitialisationFailureNotSticky ==
    [][(/\ lastOp.op = "query"
        /\ response.kind = "database_error"
        /\ InitialisationWouldSucceed
        /\ InDomainQuery')
          => /\ trace'[1] = <<"get_player_collection", "miss">>
             /\ response'.kind # "database_error"]_vars

\* the positions of the trace where the name-search stage searched for a
\* fragment that is empty or matches no record
FruitlessNameSearches ==
    {s \in Steps("name_search") : trace[s][2] = <<>> \/ NameMatches(trace[s][2]) = {}}

\* C22: when the name-search stage is entered but the extracted fragment
\* matches no record, or no name was extracted, the stage gives no response:
\* the query goes on through the phrase rules in their fixed order, is handled
\* by the first rule whose phrase it holds and by the free-form fallback when
\* it holds none, and a not-found or error response comes from that fallback,
\* never from the name-search stage.
C22_FruitlessNameSearchFallsThrough ==
    (lastOp.op = "query" /\ FruitlessNameSearches # {})
        => /\ response.handler # "name_search"
           /\ response.handler = RuleHandlers[FirstRule(Lower(Strip(lastOp.arg)))]
           /\ \A s \in FruitlessNameSearches :
                 /\ Cardinality({h \in Steps("handler") : h > s}) = 1
                 /\ \A h \in Steps("handler") : h > s /\ trace[h][2] = response.handler
           /\ response.kind \in {"not_found", "error"} => response.handler = "fallback"

\* the fragment extracted matched no record and the list-bowlers rule, the
\* first whose phrase the query holds, answered
C22_Witness ==
    /\ lastOp.op = "query"
    /\ \E s \in Steps("name_search") :
          trace[s][2] # <<>> /\ NameMatches(trace[s][2]) = {}
    /\ response.handler = "list_bowlers"
    /\ response.kind \in {"top_bowlers", "no_bowlers", "enhanced"}

====
